---- MODULE Spec2Model ----
(***************************************************************************)
(* Portfolio_Manager: the position engine (PositionCalculator, weighted    *)
(* moving average per ticker across institutions) and the tax engine       *)
(* (TaxCalculatorBR, monthly capital-gains tax with loss carry-forward).   *)
(*                                                                         *)
(* Fixed-point representation.  The source computes with Decimal and       *)
(* quantizes money to 0.01 and quantities to 0.00000001, ROUND_HALF_UP.    *)
(* Here money is an integer number of cents and a quantity an integer      *)
(* number of quanta, QtyScale quanta making one share.  TLC's integers are *)
(* 32 bits wide, so the model keeps QtyScale quanta per share instead of   *)
(* the source's 10^8; every rounding is the source's quantize, written     *)
(* over the scale.  Transaction quantities are multiples of one quantum    *)
(* and prices multiples of one cent (Transaction.__post_init__ rounds the  *)
(* price; the data model gives quantities 8 decimals).                     *)
(***************************************************************************)
EXTENDS Integers, Sequences, FiniteSets, TLC

VARIABLES
    positions,      \* PositionCalculator._positions: rows in insertion order
    globals,        \* PositionCalculator._globals: ticker -> aggregate
    tx,             \* the transaction of the last process call (NoTx before)
    result,         \* what the last process call returned (None or a SaleResult)
    prevPositions,  \* _positions as it was before the last process call
    prevGlobals,    \* _globals as it was before the last process call
    hist,           \* per ticker: were all its transactions BUYs, and their sums
    positiveOnly,   \* did every transaction so far carry a quantity field > 0
    log,            \* the ordered transaction list fed so far (where it is recorded)
    nProcessed,     \* number of process calls made so far
    accumulated_losses, \* the caller's loss ledger: (asset class, trade type) -> cents
    sale_results,   \* the sale events given to the last calculate_monthly_tax call
    tax_results,    \* the list of TaxResult the last calculate_monthly_tax call returned
    prevLosses,     \* the loss ledger as it was before that call
    nMonths,        \* number of calculate_monthly_tax calls made so far
    transactions_table,   \* table transactions: rows in rowid order
    positions_table,      \* table positions: rows in rowid order
    tax_losses_table,     \* table tax_losses: rows in rowid order
    custodians_table,     \* table portfolio_custodians: rows in rowid order
    audit_log,            \* table audit_log: rows in rowid order
    last_rebuild,         \* app setting last_rebuild: the instant stored (0: no row)
    prev_positions_table, \* table positions as it was before the last operation
    first_run_from,       \* table positions as the first execute of the row found it
    rebuilds_in_a_row,    \* executes since the last change of the transactions table
    nRebuilds,            \* number of RebuildAllUseCase.execute calls made so far
    tax_calls,            \* the tax engine calls the last execute made, in order
    save_tx,              \* the transaction given to the last SaveTransactionUseCase.execute
    save_outcome,         \* "saved" when that call returned, else the error it raised
    prev_transactions_table, \* table transactions as it was before that call
    prev_custodians_table,   \* table portfolio_custodians as it was before that call
    inserts_only,         \* did every execute so far carry a new transaction
    nSaves,               \* number of SaveTransactionUseCase.execute calls made so far
    _running,       \* WriteQueueManager._running
    _thread,        \* WriteQueueManager._thread: the worker last created (0: None)
    _queue,         \* WriteQueueManager._queue: the items put and not yet taken
    workers,        \* the worker threads created so far: where each is in _worker
    futures,        \* the Future of each submit call, in the order of the puts
    sessions,       \* the sessions the session factory has handed out
    client,         \* where each client thread is in its start() or stop() call
    executed,       \* the callables in the order in which workers called them
    nOps            \* number of start, stop and submit calls begun so far

\* the state of the position engine and what is recorded about its last call
calcVars == <<positions, globals, tx, result, prevPositions, prevGlobals, hist,
              positiveOnly, log, nProcessed>>

\* the loss ledger and what is recorded about the last tax call
taxVars == <<accumulated_losses, sale_results, tax_results, prevLosses, nMonths>>

\* the database and what is recorded about the rebuilds made on it
dbVars == <<transactions_table, positions_table, tax_losses_table, custodians_table,
            audit_log, last_rebuild, prev_positions_table, first_run_from,
            rebuilds_in_a_row, nRebuilds, tax_calls, save_tx, save_outcome,
            prev_transactions_table, prev_custodians_table, inserts_only, nSaves>>

\* the write queue manager, its threads and what is recorded about its work
queueVars == <<_running, _thread, _queue, workers, futures, sessions, client,
              executed, nOps>>

vars == <<calcVars, taxVars, dbVars, queueVars>>

\* ------------------------------------------------------------------ bounds

\* quanta per share (the source has 10^8, see the header)
QtyScale == 100

\* process calls per run
MaxTx == 3

\* sale events per month given to calculate_monthly_tax
MaxSales == 2

\* months (calculate_monthly_tax calls) per run
MaxMonths == 2

\* RebuildAllUseCase.execute calls per run
MaxRebuilds == 3

\* start, stop and submit calls per run of the write queue
MaxOps == 4

\* units of an exchange rate per 1.0 (fx_rate is an unquantized Decimal in the
\* source; the rates of the runs are multiples of 1 / FxScale)
FxScale == 100

\* ------------------------------------------------------------------ rounding

ZERO == 0

\* Decimal.quantize(..., ROUND_HALF_UP) of the ratio n / d (d > 0) to an
\* integer number of units: ties go away from zero.
RoundHalfUp(n, d) ==
    LET a == IF n < 0 THEN -n ELSE n
        q == a \div d
        r == a % d
        m == IF 2 * r >= d THEN q + 1 ELSE q
    IN  IF n < 0 THEN -m ELSE m

\* round_monetary(quantity * price): quanta times cents, to cents
round_monetary_mul(qty, price) == RoundHalfUp(qty * price, QtyScale)

\* round_monetary(total_cost / quantity): cents over quanta, to cents per share
round_monetary_div(cost, qty) == RoundHalfUp(cost * QtyScale, qty)

\* round_qty(quantity * factor): quanta times quanta, to quanta
round_qty_mul(qty, factor) == RoundHalfUp(qty * factor, QtyScale)

\* round_qty(quantity / factor): quanta over quanta, to quanta
round_qty_div(qty, factor) == RoundHalfUp(qty * QtyScale, factor)

\* ------------------------------------------------------------------ data

None == [kind |-> "None"]
NoTx == [type |-> "NONE"]

\* _MutablePosition.__init__
_MutablePosition(ticker, asset_class, currency, institution) ==
    [ticker |-> ticker, asset_class |-> asset_class, currency |-> currency,
     institution |-> institution,
     quantity |-> ZERO, avg_price |-> ZERO, total_cost |-> ZERO]

\* _TickerGlobal.__init__
_TickerGlobal == [quantity |-> ZERO, total_cost |-> ZERO, avg_price |-> ZERO]

\* The engine's two dictionaries as one value.
Engine(P, G) == [positions |-> P, globals |-> G]

\* index of the row keyed "TICKER@INSTITUTION" in the dictionary, 0 if absent
KeyIndex(P, ticker, institution) ==
    IF \E i \in 1..Len(P) : P[i].ticker = ticker /\ P[i].institution = institution
    THEN CHOOSE i \in 1..Len(P) : P[i].ticker = ticker /\ P[i].institution = institution
    ELSE 0

\* _get_global: the aggregate of the ticker, created at zero when absent
_get_global(G, ticker) ==
    IF ticker \in DOMAIN G THEN G ELSE G @@ (ticker :> _TickerGlobal)

\* the average a ticker's aggregate holds, 0 when it has no aggregate yet
GlobalAvg(G, ticker) == IF ticker \in DOMAIN G THEN G[ticker].avg_price ELSE ZERO

\* ------------------------------------------------------------------ helpers

\* Mutant of _sync_avg_price: the average is copied to the open rows only
\* (quantity > 0), a closed row keeps the average it had.
_sync_avg_price_open_rows(E, ticker) ==
    IF ticker \notin DOMAIN E.globals THEN E
    ELSE LET g == E.globals[ticker]
         IN  Engine(
               [i \in 1..Len(E.positions) |->
                  LET pos == E.positions[i]
                  IN  IF pos.ticker = ticker /\ pos.quantity > ZERO
                      THEN [pos EXCEPT
                              !.avg_price = g.avg_price,
                              !.total_cost = round_monetary_mul(pos.quantity, g.avg_price)]
                      ELSE pos],
               E.globals)

\* Mutant of _sync_avg_price: the average is copied to every row of the
\* ticker, each row's total_cost is left as it was.
_sync_avg_price_keep_cost(E, ticker) ==
    IF ticker \notin DOMAIN E.globals THEN E
    ELSE LET g == E.globals[ticker]
         IN  Engine(
               [i \in 1..Len(E.positions) |->
                  LET pos == E.positions[i]
                  IN  IF pos.ticker = ticker
                      THEN [pos EXCEPT !.avg_price = g.avg_price]
                      ELSE pos],
               E.globals)

\* _sync_avg_price: copy the global avg_price to every row of the ticker and
\* recompute each such row's total_cost
_sync_avg_price(E, ticker) ==
    IF ticker \notin DOMAIN E.globals THEN E
    ELSE LET g == E.globals[ticker]
         IN  Engine(
               [i \in 1..Len(E.positions) |->
                  LET pos == E.positions[i]
                  IN  IF pos.ticker = ticker
                      THEN [pos EXCEPT
                              !.avg_price = g.avg_price,
                              !.total_cost = IF pos.quantity > ZERO
                                             THEN round_monetary_mul(pos.quantity, g.avg_price)
                                             ELSE ZERO]
                      ELSE pos],
               E.globals)

RECURSIVE SumRows(_, _, _, _)
\* the loop of _recalc_global over the rows from index i on
SumRows(P, ticker, i, acc) ==
    IF i > Len(P) THEN acc
    ELSE SumRows(P, ticker, i + 1,
                 IF P[i].ticker = ticker
                 THEN [quantity |-> acc.quantity + P[i].quantity,
                       total_cost |-> acc.total_cost + P[i].total_cost]
                 ELSE acc)

\* _recalc_global: recompute the ticker's aggregate from its rows, then sync
_recalc_global(E, ticker) ==
    LET tot == SumRows(E.positions, ticker, 1, [quantity |-> ZERO, total_cost |-> ZERO])
        G1  == _get_global(E.globals, ticker)
        g   == [quantity |-> tot.quantity,
                total_cost |-> tot.total_cost,
                avg_price |-> IF tot.quantity > ZERO
                              THEN round_monetary_div(tot.total_cost, tot.quantity)
                              ELSE ZERO]
    IN  _sync_avg_price(Engine(E.positions, [G1 EXCEPT ![ticker] = g]), ticker)

\* ------------------------------------------------------------------ operations
\* Each operation takes the engine E, the index i of the transaction's row
\* (process has created it when it was absent) and the transaction t, and
\* gives the engine after the call with the value the call returns.

Outcome(E, res) == [positions |-> E.positions, globals |-> E.globals, result |-> res]

\* the SaleResult value object
SaleResult(t, avg, proceeds, cost_of_sold, gain_loss) ==
    [kind |-> "SaleResult", ticker |-> t.ticker, date |-> t.date,
     trade_type |-> t.trade_type, asset_class |-> t.asset_class,
     sell_qty |-> t.quantity, sell_price |-> t.price, avg_cost |-> avg,
     proceeds |-> proceeds, cost_of_sold |-> cost_of_sold,
     gain_loss |-> gain_loss, currency |-> t.currency, fx_rate |-> t.fx_rate]

\* SaleResult.gain_loss_brl
gain_loss_brl(sr) == RoundHalfUp(sr.gain_loss * sr.fx_rate, FxScale)

\* SaleResult.proceeds_brl
proceeds_brl(sr) == RoundHalfUp(sr.proceeds * sr.fx_rate, FxScale)

\* Mutant of _buy: the average is taken from the buying institution's own
\* row (its cost over its quantity) instead of the ticker's aggregate.
_buy_local_avg(E, i, t) ==
    LET pos      == E.positions[i]
        buy_qty  == t.quantity
        buy_cost == round_monetary_mul(t.quantity, t.price)
        pq == pos.quantity + buy_qty
        pc == pos.total_cost + buy_cost
        P1 == [E.positions EXCEPT ![i].quantity = pq, ![i].total_cost = pc]
        G1 == _get_global(E.globals, t.ticker)
        g  == G1[t.ticker]
        G2 == [G1 EXCEPT ![t.ticker] =
                 [quantity |-> g.quantity + buy_qty,
                  total_cost |-> g.total_cost + buy_cost,
                  avg_price |-> IF pq > ZERO THEN round_monetary_div(pc, pq) ELSE ZERO]]
    IN  Outcome(_sync_avg_price(Engine(P1, G2), t.ticker), None)

\* Mutant of _buy: the average becomes the price of the last purchase.
_buy_last_price(E, i, t) ==
    LET pos      == E.positions[i]
        buy_qty  == t.quantity
        buy_cost == round_monetary_mul(t.quantity, t.price)
        P1 == [E.positions EXCEPT
                 ![i].quantity = pos.quantity + buy_qty,
                 ![i].total_cost = pos.total_cost + buy_cost]
        G1 == _get_global(E.globals, t.ticker)
        g  == G1[t.ticker]
        G2 == [G1 EXCEPT ![t.ticker] =
                 [quantity |-> g.quantity + buy_qty,
                  total_cost |-> g.total_cost + buy_cost,
                  avg_price |-> t.price]]
    IN  Outcome(_sync_avg_price(Engine(P1, G2), t.ticker), None)

\* PositionCalculator._buy
_buy(E, i, t) ==
    LET pos      == E.positions[i]
        buy_qty  == t.quantity
        buy_cost == round_monetary_mul(t.quantity, t.price)
        P1 == [E.positions EXCEPT
                 ![i].quantity = pos.quantity + buy_qty,
                 ![i].total_cost = pos.total_cost + buy_cost]
        G1 == _get_global(E.globals, t.ticker)
        g  == G1[t.ticker]
        gq == g.quantity + buy_qty
        gc == g.total_cost + buy_cost
        G2 == [G1 EXCEPT ![t.ticker] =
                 [quantity |-> gq, total_cost |-> gc,
                  avg_price |-> IF gq > ZERO THEN round_monetary_div(gc, gq) ELSE ZERO]]
    IN  Outcome(_sync_avg_price(Engine(P1, G2), t.ticker), None)

\* The updates of _sell, shared by its mutants: the row and the aggregate
\* after a sale of sell_qty at the average avg, clamped at zero when clamp.
SellUpdate(E, i, t, avg, clamp) ==
    LET pos     == E.positions[i]
        G1      == _get_global(E.globals, t.ticker)
        g       == G1[t.ticker]
        new_qty == pos.quantity - t.quantity
        gq      == g.quantity - t.quantity
        P1 == IF clamp /\ new_qty <= ZERO
              THEN [E.positions EXCEPT ![i].quantity = ZERO, ![i].total_cost = ZERO]
              ELSE [E.positions EXCEPT ![i].quantity = new_qty,
                                       ![i].total_cost = round_monetary_mul(new_qty, avg)]
        G2 == [G1 EXCEPT ![t.ticker] =
                 IF clamp /\ gq <= ZERO
                 THEN [quantity |-> ZERO, total_cost |-> ZERO, avg_price |-> ZERO]
                 ELSE [quantity |-> gq,
                       total_cost |-> round_monetary_mul(gq, avg),
                       avg_price |-> avg]]
    IN  Engine(P1, G2)

\* Mutant of _sell: the cost basis is the aggregate's average after the sale
\* has been applied, not the one held before it.
_sell_avg_after(E, i, t) ==
    LET avg   == _get_global(E.globals, t.ticker)[t.ticker].avg_price
        E2    == SellUpdate(E, i, t, avg, TRUE)
        after == E2.globals[t.ticker].avg_price
        cost_of_sold == round_monetary_mul(t.quantity, after)
        proceeds     == round_monetary_mul(t.quantity, t.price)
    IN  Outcome(_sync_avg_price(E2, t.ticker),
                SaleResult(t, after, proceeds, cost_of_sold, proceeds - cost_of_sold))

\* Mutant of _sell: no clamp, a sale of more than is held leaves a deficit.
_sell_no_clamp(E, i, t) ==
    LET avg == _get_global(E.globals, t.ticker)[t.ticker].avg_price
        cost_of_sold == round_monetary_mul(t.quantity, avg)
        proceeds     == round_monetary_mul(t.quantity, t.price)
    IN  Outcome(_sync_avg_price(SellUpdate(E, i, t, avg, FALSE), t.ticker),
                SaleResult(t, avg, proceeds, cost_of_sold, proceeds - cost_of_sold))

\* Mutant of _sell: the average is recomputed from the reduced totals.
_sell_recompute_avg(E, i, t) ==
    LET avg == _get_global(E.globals, t.ticker)[t.ticker].avg_price
        cost_of_sold == round_monetary_mul(t.quantity, avg)
        proceeds     == round_monetary_mul(t.quantity, t.price)
        E2 == SellUpdate(E, i, t, avg, TRUE)
        g2 == E2.globals[t.ticker]
        G3 == [E2.globals EXCEPT ![t.ticker].avg_price =
                 IF g2.quantity > ZERO
                 THEN round_monetary_div(g2.total_cost, g2.quantity)
                 ELSE ZERO]
    IN  Outcome(_sync_avg_price(Engine(E2.positions, G3), t.ticker),
                SaleResult(t, avg, proceeds, cost_of_sold, proceeds - cost_of_sold))

\* PositionCalculator._sell
_sell(E, i, t) ==
    LET pos          == E.positions[i]
        sell_qty     == t.quantity
        sell_price   == t.price
        G1           == _get_global(E.globals, t.ticker)
        g            == G1[t.ticker]
        avg          == g.avg_price
        cost_of_sold == round_monetary_mul(sell_qty, avg)
        proceeds     == round_monetary_mul(sell_qty, sell_price)
        gain_loss    == proceeds - cost_of_sold
        new_qty      == pos.quantity - sell_qty
        P1 == IF new_qty <= ZERO
              THEN [E.positions EXCEPT ![i].quantity = ZERO, ![i].total_cost = ZERO]
              ELSE [E.positions EXCEPT ![i].quantity = new_qty,
                                       ![i].total_cost = round_monetary_mul(new_qty, avg)]
        gq == g.quantity - sell_qty
        G2 == [G1 EXCEPT ![t.ticker] =
                 IF gq <= ZERO
                 THEN [quantity |-> ZERO, total_cost |-> ZERO, avg_price |-> ZERO]
                 ELSE [quantity |-> gq,
                       total_cost |-> round_monetary_mul(gq, avg),
                       avg_price |-> avg]]
    IN  Outcome(_sync_avg_price(Engine(P1, G2), t.ticker),
                SaleResult(t, avg, proceeds, cost_of_sold, gain_loss))

\* Mutant of _split: the aggregate's quantity is multiplied by the factor
\* as the row's is, instead of being summed again over the rows.
_split_scales_global(E, i, t) ==
    LET factor == t.quantity
        pos    == E.positions[i]
        P1 == [E.positions EXCEPT ![i].quantity = round_qty_mul(pos.quantity, factor)]
        G1 == _get_global(E.globals, t.ticker)
        gq == round_qty_mul(G1[t.ticker].quantity, factor)
        G2 == [G1 EXCEPT ![t.ticker].quantity = gq,
                         ![t.ticker].avg_price =
                             IF gq > ZERO
                             THEN round_monetary_div(G1[t.ticker].total_cost, gq)
                             ELSE ZERO]
    IN  IF factor <= ZERO THEN Outcome(E, None)
        ELSE Outcome(_sync_avg_price(Engine(P1, G2), t.ticker), None)

\* PositionCalculator._split
_split(E, i, t) ==
    LET factor == t.quantity
        pos    == E.positions[i]
        P1 == [E.positions EXCEPT ![i].quantity = round_qty_mul(pos.quantity, factor)]
        G1 == _get_global(E.globals, t.ticker)
        \* line 244: overwritten by _recalc_global right after
        G2 == [G1 EXCEPT ![t.ticker].quantity =
                 round_qty_mul(G1[t.ticker].quantity, factor - QtyScale)]
    IN  IF factor <= ZERO THEN Outcome(E, None)
        ELSE Outcome(_recalc_global(Engine(P1, G2), t.ticker), None)

\* PositionCalculator._inplit
_inplit(E, i, t) ==
    LET factor == t.quantity
        pos    == E.positions[i]
    IN  IF factor <= ZERO THEN Outcome(E, None)
        ELSE Outcome(
               _recalc_global(
                 Engine([E.positions EXCEPT
                           ![i].quantity = round_qty_div(pos.quantity, factor)],
                        E.globals),
                 t.ticker),
               None)

\* PositionCalculator._bonus
_bonus(E, i, t) ==
    LET bonus_qty == t.quantity
        pos == E.positions[i]
        P1  == [E.positions EXCEPT ![i].quantity = pos.quantity + bonus_qty]
        G1  == _get_global(E.globals, t.ticker)
        g   == G1[t.ticker]
        gq  == g.quantity + bonus_qty
        G2  == [G1 EXCEPT ![t.ticker] =
                  [quantity |-> gq, total_cost |-> g.total_cost,
                   avg_price |-> IF gq > ZERO
                                 THEN round_monetary_div(g.total_cost, gq)
                                 ELSE ZERO]]
    IN  Outcome(_sync_avg_price(Engine(P1, G2), t.ticker), None)

\* Mutant of process: a DIVIDEND or JCP is booked like a purchase.
process_dividend_buys(E, t) ==
    LET k  == KeyIndex(E.positions, t.ticker, t.institution)
        P1 == IF k = 0
              THEN Append(E.positions,
                          _MutablePosition(t.ticker, t.asset_class, t.currency,
                                           t.institution))
              ELSE E.positions
        i  == IF k = 0 THEN Len(P1) ELSE k
        E1 == Engine(P1, E.globals)
    IN  CASE t.type \in {"BUY", "DIVIDEND", "JCP"} -> _buy(E1, i, t)
          [] t.type = "SELL"   -> _sell(E1, i, t)
          [] t.type = "SPLIT"  -> _split(E1, i, t)
          [] t.type = "INPLIT" -> _inplit(E1, i, t)
          [] t.type = "BONUS"  -> _bonus(E1, i, t)
          [] OTHER -> Outcome(E1, None)

\* PositionCalculator.process: create the row when absent, then dispatch
process(E, t) ==
    LET k  == KeyIndex(E.positions, t.ticker, t.institution)
        P1 == IF k = 0
              THEN Append(E.positions,
                          _MutablePosition(t.ticker, t.asset_class, t.currency,
                                           t.institution))
              ELSE E.positions
        i  == IF k = 0 THEN Len(P1) ELSE k
        E1 == Engine(P1, E.globals)
    IN  CASE t.type = "BUY"    -> _buy(E1, i, t)
          [] t.type = "SELL"   -> _sell(E1, i, t)
          [] t.type = "SPLIT"  -> _split(E1, i, t)
          [] t.type = "INPLIT" -> _inplit(E1, i, t)
          [] t.type = "BONUS"  -> _bonus(E1, i, t)
          [] t.type \in {"DIVIDEND", "JCP"} -> Outcome(E1, None)
          [] OTHER -> Outcome(E1, None)

\* PositionCalculator.get_positions: the rows as Position entities, in the
\* dictionary's order (Position.__post_init__ rounds avg_price and total_cost
\* to cents, which they already are)
get_positions(P) ==
    [i \in 1..Len(P) |->
       [ticker |-> P[i].ticker, asset_class |-> P[i].asset_class,
        quantity |-> P[i].quantity, avg_price |-> P[i].avg_price,
        currency |-> P[i].currency, total_cost |-> P[i].total_cost,
        institution |-> P[i].institution]]

\* ------------------------------------------------------------------ tax engine
\* A rate is the fraction num / den of the source's Decimal literal.

SWING_TRADE_RATE == [num |-> 15, den |-> 100]

DAY_TRADE_RATE == [num |-> 20, den |-> 100]

IRRF_SWING_RATE == [num |-> 5, den |-> 100000]

IRRF_DAY_RATE == [num |-> 1, den |-> 100]

\* 20000.00, in cents
MONTHLY_EXEMPTION_LIMIT == 2000000

\* round_monetary(value * rate)
round_monetary_rate(value, rate) == RoundHalfUp(value * rate.num, rate.den)

\* the TaxResult entity
TaxResult(month_ref, asset_class, trade_type, gross_gain, accumulated_loss_before, taxable_gain, tax_rate, tax_due, irrf_withheld, darf_to_pay, accumulated_loss_after) ==
    [month_ref |-> month_ref, asset_class |-> asset_class, trade_type |-> trade_type,
     gross_gain |-> gross_gain, accumulated_loss_before |-> accumulated_loss_before,
     taxable_gain |-> taxable_gain, tax_rate |-> tax_rate, tax_due |-> tax_due,
     irrf_withheld |-> irrf_withheld, darf_to_pay |-> darf_to_pay,
     accumulated_loss_after |-> accumulated_loss_after]

\* TaxCalculatorBR._rate
_rate(trade_type) ==
    IF trade_type = "DAY_TRADE" THEN DAY_TRADE_RATE ELSE SWING_TRADE_RATE

\* TaxCalculatorBR._compute_irrf
_compute_irrf(trade_type, total_proceeds_brl, total_gain_brl) ==
    IF trade_type = "DAY_TRADE"
    THEN IF total_gain_brl > ZERO
         THEN round_monetary_rate(total_gain_brl, IRRF_DAY_RATE)
         ELSE ZERO
    ELSE round_monetary_rate(total_proceeds_brl, IRRF_SWING_RATE)

\* the key under which a sale event is grouped
GroupKey(sr) == <<sr.asset_class, sr.trade_type>>

RECURSIVE GroupKeys_per_sale(_, _, _)
\* Mutant of GroupKeys: one entry per sale event, a pair that occurs twice
\* is entered twice.
GroupKeys_per_sale(sales, i, acc) ==
    IF i > Len(sales) THEN acc
    ELSE GroupKeys_per_sale(sales, i + 1, Append(acc, GroupKey(sales[i])))

RECURSIVE GroupKeys(_, _, _)
\* the keys of the groups dict in insertion order: each pair at the place of
\* its first sale event
GroupKeys(sales, i, acc) ==
    IF i > Len(sales) THEN acc
    ELSE GroupKeys(sales, i + 1,
                   IF \E j \in 1..Len(acc) : acc[j] = GroupKey(sales[i])
                   THEN acc
                   ELSE Append(acc, GroupKey(sales[i])))

RECURSIVE SumGroup(_, _, _)
\* the two sums over the sale events of one group, from index i on
SumGroup(sales, key, i) ==
    IF i > Len(sales) THEN [gain |-> ZERO, proceeds |-> ZERO]
    ELSE LET rest == SumGroup(sales, key, i + 1)
         IN  IF GroupKey(sales[i]) = key
             THEN [gain |-> gain_loss_brl(sales[i]) + rest.gain,
                   proceeds |-> proceeds_brl(sales[i]) + rest.proceeds]
             ELSE rest

\* accumulated_losses.get(key, ZERO)
LossOf(losses, key) == IF key \in DOMAIN losses THEN losses[key] ELSE ZERO

\* accumulated_losses[key] = value
SetLoss(losses, key, value) ==
    [k \in DOMAIN losses \cup {key} |-> IF k = key THEN value ELSE losses[k]]

\* what one pass of the loop over the groups leaves: the result appended and
\* the ledger after it
TaxOutcome(res, losses) == [result |-> res, losses |-> losses]

\* Mutant of IsExempt: the limit itself is not exempt (< instead of <=).
IsExempt_below_limit(asset_class, trade_type, total_proceeds_brl) ==
    /\ trade_type = "SWING_TRADE"
    /\ asset_class = "ACAO"
    /\ total_proceeds_brl < MONTHLY_EXEMPTION_LIMIT

\* the test of the monthly exemption
IsExempt(asset_class, trade_type, total_proceeds_brl) ==
    /\ trade_type = "SWING_TRADE"
    /\ asset_class = "ACAO"
    /\ total_proceeds_brl <= MONTHLY_EXEMPTION_LIMIT

\* Mutant of ExemptOutcome: a net loss of an exempt group is added to the
\* ledger, as it is for a taxed group.
ExemptOutcome_accumulates(key, total_gain_brl, losses, month_ref) ==
    LET acc_loss == LossOf(losses, key)
        new_loss == IF total_gain_brl < ZERO THEN acc_loss + (-total_gain_brl)
                    ELSE acc_loss
    IN  TaxOutcome(TaxResult(month_ref, key[1], key[2], total_gain_brl, acc_loss,
                             ZERO, SWING_TRADE_RATE, ZERO, ZERO, ZERO, new_loss),
                   SetLoss(losses, key, new_loss))

\* exempt group: no tax, the ledger is not touched
ExemptOutcome(key, total_gain_brl, losses, month_ref) ==
    TaxOutcome(TaxResult(month_ref, key[1], key[2], total_gain_brl,
                         LossOf(losses, key), ZERO, SWING_TRADE_RATE, ZERO, ZERO, ZERO,
                         LossOf(losses, key)),
               losses)

\* Mutant of NetLossOutcome: the month's loss replaces the carried loss
\* instead of being added to it.
NetLossOutcome_overwrites(key, total_gain_brl, losses, month_ref) ==
    LET acc_loss     == LossOf(losses, key)
        new_acc_loss == -total_gain_brl
    IN  TaxOutcome(TaxResult(month_ref, key[1], key[2], total_gain_brl, acc_loss,
                             ZERO, _rate(key[2]), ZERO, ZERO, ZERO, new_acc_loss),
                   SetLoss(losses, key, new_acc_loss))

\* net loss of the month (total_gain_brl < 0): accumulate
NetLossOutcome(key, total_gain_brl, losses, month_ref) ==
    LET acc_loss     == LossOf(losses, key)
        new_acc_loss == acc_loss + (-total_gain_brl)
    IN  TaxOutcome(TaxResult(month_ref, key[1], key[2], total_gain_brl, acc_loss,
                             ZERO, _rate(key[2]), ZERO, ZERO, ZERO, new_acc_loss),
                   SetLoss(losses, key, new_acc_loss))

\* Mutant of RemainingLossOutcome: the difference is stored with its sign,
\* without abs().
RemainingLossOutcome_signed(key, total_gain_brl, losses, month_ref) ==
    LET acc_loss       == LossOf(losses, key)
        taxable        == total_gain_brl - acc_loss
        remaining_loss == taxable
    IN  TaxOutcome(TaxResult(month_ref, key[1], key[2], total_gain_brl, acc_loss,
                             ZERO, _rate(key[2]), ZERO, ZERO, ZERO, remaining_loss),
                   SetLoss(losses, key, remaining_loss))

\* net gain below the carried loss (taxable < 0): the rest stays carried
RemainingLossOutcome(key, total_gain_brl, losses, month_ref) ==
    LET acc_loss       == LossOf(losses, key)
        taxable        == total_gain_brl - acc_loss
        remaining_loss == -taxable
    IN  TaxOutcome(TaxResult(month_ref, key[1], key[2], total_gain_brl, acc_loss,
                             ZERO, _rate(key[2]), ZERO, ZERO, ZERO, remaining_loss),
                   SetLoss(losses, key, remaining_loss))

\* Mutant of TaxableOutcome: the carried loss is not set against the gain,
\* the whole gain is taxed.
TaxableOutcome_no_offset(key, tot, losses, month_ref) ==
    LET acc_loss == LossOf(losses, key)
        taxable  == tot.gain
        rate     == _rate(key[2])
        tax_due  == round_monetary_rate(taxable, rate)
        irrf     == _compute_irrf(key[2], tot.proceeds, tot.gain)
        diff     == tax_due - irrf
        darf     == IF diff > ZERO THEN diff ELSE ZERO
    IN  TaxOutcome(TaxResult(month_ref, key[1], key[2], tot.gain, acc_loss, taxable,
                             rate, tax_due, irrf, darf, ZERO),
                   SetLoss(losses, key, ZERO))

\* taxable gain (taxable >= 0): the ledger entry is reset, tax and IRRF
TaxableOutcome(key, tot, losses, month_ref) ==
    LET acc_loss == LossOf(losses, key)
        taxable  == tot.gain - acc_loss
        rate     == _rate(key[2])
        tax_due  == round_monetary_rate(taxable, rate)
        irrf     == _compute_irrf(key[2], tot.proceeds, tot.gain)
        diff     == tax_due - irrf
        darf     == IF diff > ZERO THEN diff ELSE ZERO
    IN  TaxOutcome(TaxResult(month_ref, key[1], key[2], tot.gain, acc_loss, taxable,
                             rate, tax_due, irrf, darf, ZERO),
                   SetLoss(losses, key, ZERO))

\* the body of the loop over the groups of calculate_monthly_tax, for the
\* group of key = <<asset_class, trade_type>>
GroupTax(key, sales, losses, month_ref) ==
    LET tot == SumGroup(sales, key, 1)
    IN  IF IsExempt(key[1], key[2], tot.proceeds)
        THEN ExemptOutcome(key, tot.gain, losses, month_ref)
        ELSE IF tot.gain < ZERO
        THEN NetLossOutcome(key, tot.gain, losses, month_ref)
        ELSE IF tot.gain - LossOf(losses, key) < ZERO
        THEN RemainingLossOutcome(key, tot.gain, losses, month_ref)
        ELSE TaxableOutcome(key, tot, losses, month_ref)

RECURSIVE TaxLoop(_, _, _, _, _, _)
\* the loop over groups.items() from the i-th group on, with the results
\* collected and the ledger reached so far
TaxLoop(keys, i, sales, losses, results, month_ref) ==
    IF i > Len(keys) THEN [results |-> results, accumulated_losses |-> losses]
    ELSE LET out == GroupTax(keys[i], sales, losses, month_ref)
         IN  TaxLoop(keys, i + 1, sales, out.losses, Append(results, out.result),
                     month_ref)

\* TaxCalculatorBR.calculate_monthly_tax: the list it returns and the ledger
\* it leaves in the caller's dict
calculate_monthly_tax(sales, losses, month_ref) ==
    TaxLoop(GroupKeys(sales, 1, <<>>), 1, sales, losses, <<>>, month_ref)

\* ------------------------------------------------------------------ inputs

Tickers == {"PETR4", "HGLG11"}

Institutions == {"XP", "BTG"}

\* AssetClass of the tickers the runs use
AssetClassOf(ticker) == IF ticker = "HGLG11" THEN "FII" ELSE "ACAO"

\* quantity of k whole shares, in quanta
Shares(k) == k * QtyScale

\* a fractional quantity, about half a share
HalfShare == QtyScale \div 2

\* price in cents
Cents(reais, cents) == reais * 100 + cents

\* a Transaction entity (the fields the engine reads)
Transaction(ticker, institution, type, quantity, price) ==
    [ticker |-> ticker, asset_class |-> AssetClassOf(ticker), type |-> type,
     trade_type |-> "SWING_TRADE", date |-> 1, quantity |-> quantity,
     price |-> price, currency |-> "BRL", fx_rate |-> FxScale,
     institution |-> institution]

\* who trades what in the runs: PETR4 at both institutions, HGLG11 at one
PetrKeys == {<<"PETR4", "XP">>, <<"PETR4", "BTG">>}

HglgKeys == {<<"HGLG11", "XP">>}

TxSet(keys, type, qtyPrices) ==
    {Transaction(k[1], k[2], type, qp[1], qp[2]) : k \in keys, qp \in qtyPrices}

BuyInputs ==
    TxSet(PetrKeys, "BUY", {<<Shares(1), Cents(10, 0)>>, <<Shares(2), Cents(10, 1)>>,
                            <<HalfShare, Cents(10, 1)>>})
    \cup TxSet(HglgKeys, "BUY", {<<Shares(1), Cents(20, 0)>>})

SellInputs ==
    TxSet(PetrKeys, "SELL", {<<Shares(1), Cents(12, 0)>>, <<Shares(3), Cents(9, 0)>>,
                             <<HalfShare, Cents(12, 1)>>})
    \cup TxSet(HglgKeys, "SELL", {<<Shares(1), Cents(25, 0)>>})

SplitInputs == TxSet(PetrKeys, "SPLIT", {<<Shares(2), 0>>, <<0, 0>>})

InplitInputs == TxSet(PetrKeys, "INPLIT", {<<Shares(3), 0>>, <<-Shares(1), 0>>})

BonusInputs == TxSet(PetrKeys, "BONUS", {<<Shares(1), 0>>, <<-Shares(1), 0>>})

DividendInputs == TxSet(PetrKeys \cup HglgKeys, "DIVIDEND", {<<Shares(1), Cents(1, 0)>>})

JcpInputs == TxSet(PetrKeys \cup HglgKeys, "JCP", {<<Shares(1), Cents(1, 0)>>})

\* ------------------------------------------------------------------ history

\* what the BUYs of a ticker add up to, while the ticker has seen BUYs only
HistInit == [t \in Tickers |-> [buyOnly |-> TRUE, cost |-> 0, quantity |-> 0]]

HistNext(h, t) ==
    [h EXCEPT ![t.ticker] =
       IF t.type = "BUY"
       THEN [buyOnly |-> @.buyOnly,
             cost |-> @.cost + round_monetary_mul(t.quantity, t.price),
             quantity |-> @.quantity + t.quantity]
       ELSE [@ EXCEPT !.buyOnly = FALSE]]

\* ------------------------------------------------------------------ behaviour

\* PositionCalculator.__init__, an empty loss ledger, and the database after
\* create_tables
\* the threads that call the write queue manager: the one of main(), and a
\* second one
Clients == {"main", "ui"}

Init ==
    /\ positions = <<>>
    /\ globals = <<>>
    /\ tx = NoTx
    /\ result = None
    /\ prevPositions = <<>>
    /\ prevGlobals = <<>>
    /\ hist = HistInit
    /\ positiveOnly = TRUE
    /\ log = <<>>
    /\ nProcessed = 0
    /\ accumulated_losses = <<>>
    /\ sale_results = <<>>
    /\ tax_results = <<>>
    /\ prevLosses = <<>>
    /\ nMonths = 0
    /\ transactions_table = <<>>
    /\ positions_table = <<>>
    /\ tax_losses_table = <<>>
    /\ custodians_table = <<>>
    /\ audit_log = <<>>
    /\ last_rebuild = 0
    /\ prev_positions_table = <<>>
    /\ first_run_from = <<>>
    /\ rebuilds_in_a_row = 0
    /\ nRebuilds = 0
    /\ tax_calls = <<>>
    /\ save_tx = NoTx
    /\ save_outcome = "none"
    /\ prev_transactions_table = <<>>
    /\ prev_custodians_table = <<>>
    /\ inserts_only = TRUE
    /\ nSaves = 0
    /\ _running = FALSE
    /\ _thread = 0
    /\ _queue = <<>>
    /\ workers = <<>>
    /\ futures = <<>>
    /\ sessions = <<>>
    /\ client = [c \in Clients |-> "idle"]
    /\ executed = <<>>
    /\ nOps = 0

\* one call calc.process(t) of a run of at most limit calls; the runs whose
\* properties speak of the whole transaction list record it (recorded), the
\* others leave the list empty
StepWithin(t, recorded, limit) ==
    /\ nProcessed < limit
    /\ \E out \in {process(Engine(positions, globals), t)} :
           /\ positions' = out.positions
           /\ globals' = out.globals
           /\ result' = out.result
    /\ tx' = t
    /\ prevPositions' = positions
    /\ prevGlobals' = globals
    /\ hist' = HistNext(hist, t)
    /\ positiveOnly' = (positiveOnly /\ t.quantity > 0)
    /\ log' = IF recorded THEN Append(log, t) ELSE log
    /\ nProcessed' = nProcessed + 1
    /\ UNCHANGED <<taxVars, dbVars, queueVars>>

\* one call calc.process(t) of a run of at most MaxTx calls
Step(t, recorded) == StepWithin(t, recorded, MaxTx)

\* process(t) with t.type = BUY
ProcessBuy ==
    \E t \in BuyInputs :
        /\ t.type = "BUY"
        /\ Step(t, FALSE)

\* process(t) with t.type = SELL
ProcessSell ==
    \E t \in SellInputs :
        /\ t.type = "SELL"
        /\ Step(t, FALSE)

\* process(t) with t.type = SPLIT
ProcessSplit ==
    \E t \in SplitInputs :
        /\ t.type = "SPLIT"
        /\ Step(t, FALSE)

\* process(t) with t.type = INPLIT
ProcessInplit ==
    \E t \in InplitInputs :
        /\ t.type = "INPLIT"
        /\ Step(t, FALSE)

\* process(t) with t.type = BONUS
ProcessBonus ==
    \E t \in BonusInputs :
        /\ t.type = "BONUS"
        /\ Step(t, FALSE)

\* process(t) with t.type = DIVIDEND
ProcessDividend ==
    \E t \in DividendInputs :
        /\ t.type = "DIVIDEND"
        /\ Step(t, FALSE)

\* process(t) with t.type = JCP
ProcessJcp ==
    \E t \in JcpInputs :
        /\ t.type = "JCP"
        /\ Step(t, FALSE)

Next ==
    \/ ProcessBuy
    \/ ProcessSell
    \/ ProcessSplit
    \/ ProcessInplit
    \/ ProcessBonus
    \/ ProcessDividend
    \/ ProcessJcp

Spec == Init /\ [][Next]_vars

\* ------------------------------------------------------------------ scenario A
\* One ticker at one institution, bought and sold in the lots and at the
\* prices of the documented scenario (tests/test_position_calculator.py).

ScenarioQtyPrices ==
    {<<Shares(q), Cents(p, 0)>> : q \in {100, 50, 40}, p \in {30, 36, 35}}

ScenarioBuyInputs == TxSet({<<"PETR4", "XP">>}, "BUY", ScenarioQtyPrices)

ScenarioSellInputs == TxSet({<<"PETR4", "XP">>}, "SELL", ScenarioQtyPrices)

\* process(t) with t.type = BUY, scenario lots
ScenarioBuy ==
    \E t \in ScenarioBuyInputs :
        /\ t.type = "BUY"
        /\ Step(t, TRUE)

\* process(t) with t.type = SELL, scenario lots
ScenarioSell ==
    \E t \in ScenarioSellInputs :
        /\ t.type = "SELL"
        /\ Step(t, TRUE)

NextA ==
    \/ ScenarioBuy
    \/ ScenarioSell

SpecA == Init /\ [][NextA]_vars

\* ------------------------------------------------------------------ signed runs
\* Runs of PETR4 alone, one call longer than the others, whose BONUS
\* quantities are of either sign (_bonus takes them as they come).

SignedBuyInputs ==
    TxSet({<<"PETR4", "XP">>}, "BUY",
          {<<Shares(1), Cents(10, 0)>>, <<Shares(2), Cents(10, 1)>>})

SignedSellInputs ==
    {Transaction("PETR4", "XP", "SELL", Shares(1), Cents(12, 0)),
     Transaction("PETR4", "BTG", "SELL", Shares(3), Cents(9, 0))}

SignedBonusInputs ==
    TxSet({<<"PETR4", "XP">>}, "BONUS", {<<Shares(1), 0>>, <<-Shares(1), 0>>})

SignedBuy ==
    \E t \in SignedBuyInputs :
        /\ t.type = "BUY"
        /\ StepWithin(t, FALSE, MaxTx + 1)

SignedSell ==
    \E t \in SignedSellInputs :
        /\ t.type = "SELL"
        /\ StepWithin(t, FALSE, MaxTx + 1)

SignedBonus ==
    \E t \in SignedBonusInputs :
        /\ t.type = "BONUS"
        /\ StepWithin(t, FALSE, MaxTx + 1)

NextSigned ==
    \/ SignedBuy
    \/ SignedSell
    \/ SignedBonus

SpecSigned == Init /\ [][NextSigned]_vars

\* ------------------------------------------------------------------ tax runs
\* The caller (RebuildAllUseCase.execute) starts from an empty ledger and
\* feeds the months in order, one non-empty list of sale events per month.

\* a sale event with given amounts, as the tests' _make_sale builds it, in
\* the currency of the given fx_rate
_make_sale(gain_loss, proceeds, asset_class, trade_type, fx_rate) ==
    SaleResult([ticker |-> "TEST", date |-> 1, trade_type |-> trade_type,
                asset_class |-> asset_class, quantity |-> Shares(100),
                price |-> Cents(10, 0),
                currency |-> IF fx_rate = FxScale THEN "BRL" ELSE "USD",
                fx_rate |-> fx_rate],
               Cents(9, 0), proceeds, proceeds - gain_loss, gain_loss)

\* the dollar rate of the runs: 5.25
UsdRate == 5 * FxScale + FxScale \div 4

\* the sale events the months are made of: the sales of the tests, halves of
\* the exemption limit (one of them a cent above), losses, and a sale in USD
SaleEvents ==
    <<_make_sale(Cents(1000, 0), Cents(25000, 0), "ACAO", "SWING_TRADE", FxScale),
      _make_sale(Cents(2000, 0), Cents(30000, 0), "ACAO", "DAY_TRADE", FxScale),
      _make_sale(-Cents(300, 0), Cents(25000, 0), "ACAO", "SWING_TRADE", FxScale),
      _make_sale(Cents(500, 0), Cents(15000, 0), "FII", "SWING_TRADE", FxScale),
      _make_sale(Cents(500, 0), Cents(10000, 0), "ACAO", "SWING_TRADE", FxScale),
      _make_sale(-Cents(2000, 0), Cents(15000, 0), "ACAO", "DAY_TRADE", FxScale),
      _make_sale(Cents(500, 0), Cents(10000, 1), "ACAO", "SWING_TRADE", FxScale),
      _make_sale(-Cents(100, 0), Cents(1000, 0), "ACAO", "SWING_TRADE", UsdRate)>>

\* the ways to pick n sale events, each no earlier in SaleEvents than the one
\* before it (the order of a month's list fixes the order of the returned
\* list and nothing else)
Picks(n) ==
    {f \in [1..n -> 1..Len(SaleEvents)] : \A i \in 1..(n - 1) : f[i] <= f[i + 1]}

\* the non-empty lists of at most MaxSales sale events
SaleBatches ==
    UNION {{[i \in 1..n |-> SaleEvents[f[i]]] : f \in Picks(n)} : n \in 1..MaxSales}

\* month_ref of the n-th month
MonthLabel(n) == <<"2025-01", "2025-02", "2025-03", "2025-04">>[n]

\* one call calculate_monthly_tax(sales, accumulated_losses, month_ref)
CalculateMonthlyTax ==
    \E sales \in SaleBatches :
        /\ nMonths < MaxMonths
        /\ \E out \in {calculate_monthly_tax(sales, accumulated_losses,
                                              MonthLabel(nMonths + 1))} :
               /\ tax_results' = out.results
               /\ accumulated_losses' = out.accumulated_losses
        /\ sale_results' = sales
        /\ prevLosses' = accumulated_losses
        /\ nMonths' = nMonths + 1
        /\ UNCHANGED <<calcVars, dbVars, queueVars>>

NextTax == CalculateMonthlyTax

SpecTax == Init /\ [][NextTax]_vars

\* -------------------------------------------------------- signed tax runs
\* calculate_monthly_tax takes any list of SaleResult: the amounts of a
\* sale event are not checked by the engine, so the runs below also feed
\* it an event whose proceeds are negative.

\* sale events of either sign: a gain on negative proceeds, losses and
\* gains of taxed groups, and sales of an exempt group
SignedSaleEvents ==
    <<_make_sale(Cents(500, 0), -Cents(20000, 0), "FII", "SWING_TRADE", FxScale),
      _make_sale(-Cents(300, 0), Cents(15000, 0), "FII", "SWING_TRADE", FxScale),
      _make_sale(Cents(500, 0), Cents(15000, 0), "FII", "SWING_TRADE", FxScale),
      _make_sale(Cents(2000, 0), Cents(30000, 0), "ACAO", "DAY_TRADE", FxScale),
      _make_sale(-Cents(2000, 0), Cents(15000, 0), "ACAO", "DAY_TRADE", FxScale),
      _make_sale(-Cents(300, 0), Cents(25000, 0), "ACAO", "SWING_TRADE", FxScale),
      _make_sale(Cents(500, 0), Cents(10000, 0), "ACAO", "SWING_TRADE", FxScale)>>

\* the non-empty lists of at most MaxSales of these events, in the order of
\* SignedSaleEvents
SignedSaleBatches ==
    UNION {{[i \in 1..n |-> SignedSaleEvents[f[i]]] :
               f \in {g \in [1..n -> 1..Len(SignedSaleEvents)] :
                         \A i \in 1..(n - 1) : g[i] <= g[i + 1]}} :
           n \in 1..MaxSales}

\* one call calculate_monthly_tax(sales, accumulated_losses, month_ref) over
\* sale events of either sign
CalculateMonthlyTaxSigned ==
    \E sales \in SignedSaleBatches :
        /\ nMonths < MaxMonths
        /\ \E out \in {calculate_monthly_tax(sales, accumulated_losses,
                                              MonthLabel(nMonths + 1))} :
               /\ tax_results' = out.results
               /\ accumulated_losses' = out.accumulated_losses
        /\ sale_results' = sales
        /\ prevLosses' = accumulated_losses
        /\ nMonths' = nMonths + 1
        /\ UNCHANGED <<calcVars, dbVars, queueVars>>

NextTaxSigned == CalculateMonthlyTaxSigned

SpecTaxSigned == Init /\ [][NextTaxSigned]_vars

\* ------------------------------------------------------------------ store
\* A table is the sequence of its rows in rowid order. The tables are only
\* appended to or emptied, so a new row's id is one more than the greatest
\* id of the table (SQLite's rowid without AUTOINCREMENT). A Numeric column
\* keeps a value of its scale as it is, and the engine's values have the
\* columns' scales (quanta, cents).

NextId(table) == IF table = <<>> THEN 1 ELSE table[Len(table)].id + 1

\* the record r with the field f added or set
WithField(r, f, v) == [g \in DOMAIN r \cup {f} |-> IF g = f THEN v ELSE r[g]]

\* Position.compute_hash: compute_consistency_hash is SHA-256 of the JSON of
\* the seven fields with sorted keys, taken as collision-free: the digest
\* stands for the values in key order
compute_hash(p) ==
    <<p.asset_class, p.avg_price, p.currency, p.institution, p.quantity, p.ticker,
      p.total_cost>>

\* Position.seal
seal(p) == WithField(p, "consistency_hash", compute_hash(p))

\* Transaction.compute_hash, likewise over its ten fields
compute_hash_tx(t) ==
    <<t.asset_class, t.currency, t.date, t.fx_rate, t.institution, t.price,
      t.quantity, t.ticker, t.trade_type, t.type>>

\* TransactionRepository.insert: the table and the audit log after it
insert(table, audit, t) ==
    LET id == NextId(table)
    IN  [transactions |->
             Append(table, WithField(WithField(t, "consistency_hash",
                                               compute_hash_tx(t)), "id", id)),
         audit_log |->
             Append(audit, [table_name |-> "transactions", record_id |-> id,
                            action |-> "INSERT"])]

\* where a row of the given date goes in a list ordered by date: behind the
\* rows of that date or an earlier one
RECURSIVE InsertByDate(_, _)
InsertByDate(rows, r) ==
    IF rows = <<>> \/ rows[Len(rows)].date <= r.date
    THEN Append(rows, r)
    ELSE Append(InsertByDate(SubSeq(rows, 1, Len(rows) - 1), r), rows[Len(rows)])

\* TransactionRepository.get_all: ORDER BY date, id
RECURSIVE get_all(_)
get_all(table) ==
    IF table = <<>> THEN <<>>
    ELSE InsertByDate(get_all(SubSeq(table, 1, Len(table) - 1)), table[Len(table)])

\* PositionRepository.clear_all
clear_all(table) == <<>>

\* PositionRepository.upsert
upsert(table, pos) ==
    LET p == seal(pos)
        existing == {k \in 1..Len(table) : /\ table[k].ticker = p.ticker
                                           /\ table[k].institution = p.institution}
    IN  IF existing # {}
        THEN LET k == CHOOSE k \in existing : TRUE
             IN  [table EXCEPT ![k] =
                     [@ EXCEPT !.quantity = p.quantity, !.avg_price = p.avg_price,
                               !.total_cost = p.total_cost,
                               !.asset_class = p.asset_class,
                               !.currency = p.currency,
                               !.consistency_hash = p.consistency_hash]]
        ELSE Append(table, WithField(p, "id", NextId(table)))

\* TaxLossRepository.upsert
upsert_tax_loss(table, asset_class, trade_type, accumulated_loss, month_ref) ==
    LET existing == {k \in 1..Len(table) : /\ table[k].asset_class = asset_class
                                           /\ table[k].trade_type = trade_type
                                           /\ table[k].month_ref = month_ref}
    IN  IF existing # {}
        THEN LET k == CHOOSE k \in existing : TRUE
             IN  [table EXCEPT ![k].accumulated_loss = accumulated_loss]
        ELSE Append(table, [id |-> NextId(table), asset_class |-> asset_class,
                            trade_type |-> trade_type,
                            accumulated_loss |-> accumulated_loss,
                            month_ref |-> month_ref])

\* CustodianRepository.rebuild
rebuild(table, custodians) ==
    [k \in 1..Len(custodians) |-> WithField(custodians[k], "id", k)]

\* ------------------------------------------------------------------ rebuild

\* PositionCalculator.get_open_positions
get_open_positions(P) == SelectSeq(get_positions(P), LAMBDA p : p.quantity > ZERO)

\* RebuildAllUseCase._build_custodians
_build_custodians(open_positions) ==
    LET held == SelectSeq(open_positions, LAMBDA p : p.quantity > ZERO)
    IN  [k \in 1..Len(held) |->
           [ticker |-> held[k].ticker, institution |-> held[k].institution,
            quantity |-> held[k].quantity]]

\* the loop over the transactions: the engine after it and the sale results
\* collected
RECURSIVE ProcessAll(_, _, _, _)
ProcessAll(E, transactions, i, sales) ==
    IF i > Len(transactions) THEN [engine |-> E, sale_results |-> sales]
    ELSE LET out == process(E, transactions[i])
         IN  ProcessAll(Engine(out.positions, out.globals), transactions, i + 1,
                        IF out.result = None THEN sales
                        ELSE Append(sales, out.result))

\* the loop persisting the positions
RECURSIVE UpsertAll(_, _, _)
UpsertAll(table, entities, i) ==
    IF i > Len(entities) THEN table
    ELSE UpsertAll(upsert(table, entities[i]), entities, i + 1)

\* a date is the number yyyymmdd; strftime("%Y-%m") of the dates of the runs
MonthOf(date) == (date \div 100) % 100

\* the loop storing a month's results
RECURSIVE UpsertTaxLosses(_, _, _)
UpsertTaxLosses(table, results, i) ==
    IF i > Len(results) THEN table
    ELSE UpsertTaxLosses(
             upsert_tax_loss(table, results[i].asset_class, results[i].trade_type,
                             results[i].accumulated_loss_after, results[i].month_ref),
             results, i + 1)

\* one call of the tax engine as the loop makes it: what it was given and
\* what it gave back
TaxCall(month, month_sales, losses_before, out) ==
    [month |-> month, sales |-> month_sales, losses_before |-> losses_before,
     results |-> out.results, losses_after |-> out.accumulated_losses]

\* Mutant of TaxMonths: every month starts from an empty ledger.
RECURSIVE TaxMonths_fresh_ledger(_, _, _, _, _)
TaxMonths_fresh_ledger(months, sales, acc_losses, table, calls) ==
    IF months = {} THEN [table |-> table, calls |-> calls]
    ELSE LET m   == CHOOSE x \in months : \A y \in months : x <= y
             ms  == SelectSeq(sales, LAMBDA sr : MonthOf(sr.date) = m)
             Called(out) ==
                 TaxMonths_fresh_ledger(months \ {m}, sales, out.accumulated_losses,
                                        UpsertTaxLosses(table, out.results, 1),
                                        Append(calls, TaxCall(m, ms, <<>>, out)))
         IN  Called(calculate_monthly_tax(ms, <<>>, MonthLabel(m)))

\* the loop over sorted(sales_by_month): the tax_losses table after it and
\* the calls of the tax engine it made, in order
RECURSIVE TaxMonths(_, _, _, _, _)
TaxMonths(months, sales, acc_losses, table, calls) ==
    IF months = {} THEN [table |-> table, calls |-> calls]
    ELSE LET m   == CHOOSE x \in months : \A y \in months : x <= y
             ms  == SelectSeq(sales, LAMBDA sr : MonthOf(sr.date) = m)
             Called(out) ==
                 TaxMonths(months \ {m}, sales, out.accumulated_losses,
                           UpsertTaxLosses(table, out.results, 1),
                           Append(calls, TaxCall(m, ms, acc_losses, out)))
         IN  Called(calculate_monthly_tax(ms, acc_losses, MonthLabel(m)))

\* RebuildAllUseCase.execute from step 3 on, with the engine and the positions
\* table steps 1 to 3 hand over
ExecuteFrom(db, calc, positions_cleared, now) ==
    LET Stored(P, taxed) ==
            [db EXCEPT
                !.positions  = UpsertAll(positions_cleared, get_positions(P), 1),
                !.custodians = rebuild(db.custodians,
                                       _build_custodians(get_open_positions(P))),
                !.tax_losses = taxed.table,
                !.tax_calls = taxed.calls,
                !.last_rebuild = now]
        Taxed(P, sales) ==
            Stored(P, TaxMonths({MonthOf(sales[k].date) : k \in 1..Len(sales)},
                                sales, <<>>, <<>>, <<>>))
        Replayed(run) == Taxed(run.engine.positions, run.sale_results)
    IN  Replayed(ProcessAll(calc, get_all(db.transactions), 1, <<>>))

\* Mutant of execute: the positions cache is kept and the engine resumes from
\* it instead of starting empty.
execute_resumes_from_cache(db, now) ==
    IF db.transactions = <<>>
    THEN [db EXCEPT !.positions = <<>>, !.tax_losses = <<>>, !.tax_calls = <<>>]
    ELSE ExecuteFrom(db,
                     Engine([k \in 1..Len(db.positions) |->
                               [ticker |-> db.positions[k].ticker,
                                institution |-> db.positions[k].institution,
                                asset_class |-> db.positions[k].asset_class,
                                currency |-> db.positions[k].currency,
                                quantity |-> db.positions[k].quantity,
                                avg_price |-> db.positions[k].avg_price,
                                total_cost |-> db.positions[k].total_cost]],
                            <<>>),
                     db.positions, now)

\* RebuildAllUseCase.execute at the instant now: the database after it
execute(db, now) ==
    IF db.transactions = <<>>
    THEN [db EXCEPT !.positions = clear_all(db.positions),
                    !.tax_losses = <<>>, !.tax_calls = <<>>]
    ELSE ExecuteFrom(db, Engine(<<>>, <<>>), clear_all(db.positions), now)

\* ------------------------------------------------------------------ rebuild runs

\* a Transaction entity dated yyyymmdd
TransactionOn(date, ticker, institution, type, trade_type, quantity, price) ==
    [Transaction(ticker, institution, type, quantity, price)
        EXCEPT !.date = date, !.trade_type = trade_type]

\* what is entered in the runs: buys at two institutions and of two tickers,
\* a day-trade sale at a loss dated between the buys, and sales at a gain in
\* a later month, one of them a day trade
InsertInputs ==
    {TransactionOn(20250110, "PETR4", "XP", "BUY", "SWING_TRADE", Shares(2), Cents(10, 0)),
     TransactionOn(20250120, "PETR4", "BTG", "BUY", "SWING_TRADE", Shares(1), Cents(10, 1)),
     TransactionOn(20250115, "PETR4", "XP", "SELL", "DAY_TRADE", Shares(1), Cents(9, 0)),
     TransactionOn(20250210, "PETR4", "XP", "SELL", "SWING_TRADE", Shares(1), Cents(12, 0)),
     TransactionOn(20250212, "PETR4", "XP", "SELL", "DAY_TRADE", Shares(1), Cents(12, 0)),
     TransactionOn(20250205, "HGLG11", "XP", "BUY", "SWING_TRADE", Shares(1), Cents(10, 0))}

\* the database as one record
Database ==
    [transactions |-> transactions_table, positions |-> positions_table,
     tax_losses |-> tax_losses_table, custodians |-> custodians_table,
     last_rebuild |-> last_rebuild, tax_calls |-> tax_calls,
     audit_log |-> audit_log]

\* TransactionRepository.insert(t) on a table of fewer than MaxTx rows
InsertTransaction ==
    \E t \in InsertInputs :
        /\ Len(transactions_table) < MaxTx
        /\ \E out \in {insert(transactions_table, audit_log, t)} :
               /\ transactions_table' = out.transactions
               /\ audit_log' = out.audit_log
        /\ prev_positions_table' = positions_table
        /\ rebuilds_in_a_row' = 0
        /\ UNCHANGED <<positions_table, tax_losses_table, custodians_table,
                       last_rebuild, first_run_from, nRebuilds, tax_calls>>
        /\ UNCHANGED <<save_tx, save_outcome, prev_transactions_table,
                       prev_custodians_table, inserts_only, nSaves>>
        /\ UNCHANGED <<calcVars, taxVars, queueVars>>

\* RebuildAllUseCase.execute; the clock reads the number of the call
RebuildAll ==
    /\ nRebuilds < MaxRebuilds
    /\ \E db \in {execute(Database, nRebuilds + 1)} :
           /\ positions_table' = db.positions
           /\ tax_losses_table' = db.tax_losses
           /\ custodians_table' = db.custodians
           /\ last_rebuild' = db.last_rebuild
           /\ tax_calls' = db.tax_calls
    /\ prev_positions_table' = positions_table
    /\ first_run_from' = IF rebuilds_in_a_row = 0 THEN positions_table
                         ELSE first_run_from
    /\ rebuilds_in_a_row' = rebuilds_in_a_row + 1
    /\ nRebuilds' = nRebuilds + 1
    /\ UNCHANGED <<transactions_table, audit_log>>
    /\ UNCHANGED <<save_tx, save_outcome, prev_transactions_table,
                   prev_custodians_table, inserts_only, nSaves>>
    /\ UNCHANGED <<calcVars, taxVars, queueVars>>

NextRebuild ==
    \/ InsertTransaction
    \/ RebuildAll

SpecRebuild == Init /\ [][NextRebuild]_vars

\* ------------------------------------------------------------------ maintenance runs

\* TransactionRepository.delete, for an id that is stored: the table and the
\* audit log after it
delete(table, audit, tx_id) ==
    [transactions |-> SelectSeq(table, LAMBDA r : r.id # tx_id),
     audit_log |->
         Append(audit, [table_name |-> "transactions", record_id |-> tx_id,
                        action |-> "DELETE"])]

\* the transactions view deletes the selected row, on a database that has
\* logged fewer than MaxTx writes of the transactions table
DeleteTransaction ==
    \E k \in 1..Len(transactions_table) :
        /\ Len(audit_log) < MaxTx
        /\ \E out \in {delete(transactions_table, audit_log, transactions_table[k].id)} :
               /\ transactions_table' = out.transactions
               /\ audit_log' = out.audit_log
        /\ prev_positions_table' = positions_table
        /\ rebuilds_in_a_row' = 0
        /\ UNCHANGED <<positions_table, tax_losses_table, custodians_table,
                       last_rebuild, first_run_from, nRebuilds, tax_calls>>
        /\ UNCHANGED <<save_tx, save_outcome, prev_transactions_table,
                       prev_custodians_table, inserts_only, nSaves>>
        /\ UNCHANGED <<calcVars, taxVars, queueVars>>

NextMaintain ==
    \/ InsertTransaction
    \/ DeleteTransaction
    \/ RebuildAll

SpecMaintain == Init /\ [][NextMaintain]_vars

\* ------------------------------------------------------------------ save

\* TransactionRepository.get_by_ticker: WHERE ticker = ... ORDER BY date, id
get_by_ticker(table, ticker) ==
    get_all(SelectSeq(table, LAMBDA r : r.ticker = ticker))

\* the loop calc.process(t) over a list, from a fresh PositionCalculator:
\* the engine's rows after it
Replay(transactions) ==
    ProcessAll(Engine(<<>>, <<>>), transactions, 1, <<>>).engine.positions

\* the loop over calc.get_positions() that keeps the quantity of the last row
\* of the institution (ZERO when there is none)
RECURSIVE PosQty(_, _, _, _)
PosQty(entities, institution, i, pos_qty) ==
    IF i > Len(entities) THEN pos_qty
    ELSE PosQty(entities, institution, i + 1,
                IF entities[i].institution = institution THEN entities[i].quantity
                ELSE pos_qty)

\* Mutant of _validate_sell_at_date: a sale of more than the position held
\* at its date is let through.
_validate_sell_at_date_no_excess_check(table, t) ==
    LET Verdict(inst_tx, pos_qty) ==
            IF inst_tx = <<>> THEN "no_operations"
            ELSE IF pos_qty <= ZERO THEN "no_position"
            ELSE "ok"
        At(inst_tx) ==
            Verdict(inst_tx,
                    PosQty(get_positions(
                               Replay(SelectSeq(inst_tx, LAMBDA r : r.date <= t.date))),
                           t.institution, 1, ZERO))
    IN  At(SelectSeq(get_by_ticker(table, t.ticker),
                     LAMBDA r : r.institution = t.institution))

\* SaveTransactionUseCase._validate_sell_at_date: "ok" when it returns, else
\* which ValueError it raises
_validate_sell_at_date(table, t) ==
    LET Verdict(inst_tx, pos_qty) ==
            IF inst_tx = <<>> THEN "no_operations"
            ELSE IF pos_qty <= ZERO THEN "no_position"
            ELSE IF t.quantity > pos_qty THEN "exceeds_position"
            ELSE "ok"
        At(inst_tx) ==
            Verdict(inst_tx,
                    PosQty(get_positions(
                               Replay(SelectSeq(inst_tx, LAMBDA r : r.date <= t.date))),
                           t.institution, 1, ZERO))
    IN  At(SelectSeq(get_by_ticker(table, t.ticker),
                     LAMBDA r : r.institution = t.institution))

\* the row a Transaction entity is stored as, under the given id
StoredTx(t, id) ==
    WithField(WithField(t, "consistency_hash", compute_hash_tx(t)), "id", id)

\* TransactionRepository.update, for an id that is stored: the table and the
\* audit log after it
update(table, audit, t) ==
    LET k == CHOOSE k \in 1..Len(table) : table[k].id = t.id
    IN  [transactions |-> [table EXCEPT ![k] = StoredTx(t, t.id)],
         audit_log |->
             Append(audit, [table_name |-> "transactions", record_id |-> t.id,
                            action |-> "UPDATE"])]

\* SQL's ORDER BY ticker on the tickers of the runs
TickerRank(ticker) == IF ticker = "HGLG11" THEN 1 ELSE 2

\* PositionRepository.get_open: WHERE quantity > 0 ORDER BY ticker (rows of
\* one ticker in rowid order)
get_open(table) ==
    LET open == SelectSeq(table, LAMBDA r : r.quantity > ZERO)
    IN  SelectSeq(open, LAMBDA r : TickerRank(r.ticker) = 1)
            \o SelectSeq(open, LAMBDA r : TickerRank(r.ticker) = 2)

\* the PortfolioCustodian entities made of position rows
Custodians(rows) ==
    [k \in 1..Len(rows) |->
       [ticker |-> rows[k].ticker, institution |-> rows[k].institution,
        quantity |-> rows[k].quantity]]

\* SaveTransactionUseCase._recalc_and_update_custody
_recalc_and_update_custody(db, ticker) ==
    LET Stored(T1) ==
            [db EXCEPT !.positions = T1,
                       !.custodians = rebuild(db.custodians, Custodians(get_open(T1)))]
    IN  Stored(UpsertAll(db.positions,
                         get_positions(Replay(get_by_ticker(db.transactions, ticker))),
                         1))

\* what a call gives: the database it leaves and "saved" or the error raised
SaveOutcome(db, outcome) == [db |-> db, outcome |-> outcome]

\* SaveTransactionUseCase.execute(session, t), t.id = 0 standing for None;
\* every error is raised before the first write
SaveTransaction_execute(db, t, _strict) ==
    LET entity == [f \in DOMAIN t \ {"id"} |-> t[f]]
        Written(out) ==
            SaveOutcome(_recalc_and_update_custody(
                            [db EXCEPT !.transactions = out.transactions,
                                       !.audit_log = out.audit_log],
                            t.ticker),
                        "saved")
        Validated(verdict) ==
            IF verdict # "ok" THEN SaveOutcome(db, verdict)
            ELSE IF t.id # 0
                    /\ ~\E k \in 1..Len(db.transactions) : db.transactions[k].id = t.id
            THEN SaveOutcome(db, "not_found")
            ELSE Written(IF t.id = 0
                         THEN insert(db.transactions, db.audit_log, entity)
                         ELSE update(db.transactions, db.audit_log, t))
    IN  IF _strict /\ t.currency = "USD" /\ t.fx_rate <= ZERO
        THEN SaveOutcome(db, "fx_rate_required")
        ELSE Validated(IF t.type = "SELL"
                       THEN _validate_sell_at_date(db.transactions, t)
                       ELSE "ok")

\* ------------------------------------------------------------------ save runs

\* what the dialog submits as new transactions: buys at two institutions, a
\* sale of all that one of them holds a month later, a sale of all of it
\* dated between the two, and a sale of more
NewInputs ==
    {TransactionOn(20250110, "PETR4", "XP", "BUY", "SWING_TRADE", Shares(2), Cents(10, 0)),
     TransactionOn(20250120, "PETR4", "BTG", "BUY", "SWING_TRADE", Shares(1), Cents(10, 1)),
     TransactionOn(20250210, "PETR4", "XP", "SELL", "SWING_TRADE", Shares(2), Cents(12, 0)),
     TransactionOn(20250115, "PETR4", "XP", "SELL", "SWING_TRADE", Shares(2), Cents(9, 0)),
     TransactionOn(20250212, "PETR4", "XP", "SELL", "SWING_TRADE", Shares(3), Cents(12, 0))}

\* the Transaction entity of a stored row (the dialog edits a loaded entity)
EntityOf(row) == [f \in DOMAIN row \ {"consistency_hash"} |-> row[f]]

\* what the dialog submits when a stored transaction is edited: a new price,
\* another institution, another ticker
Edits(row) ==
    {[EntityOf(row) EXCEPT !.price = Cents(11, 0)],
     [EntityOf(row) EXCEPT !.institution = "BTG"],
     [EntityOf(row) EXCEPT !.ticker = "HGLG11", !.asset_class = AssetClassOf("HGLG11")]}

\* one call SaveTransactionUseCase(strict).execute(session, t) of a run of at
\* most MaxTx calls, in a session that is committed when the call returns
\* and rolled back when it raises
Save(t, strict) ==
    /\ nSaves < MaxTx
    /\ \E out \in {SaveTransaction_execute(Database, t, strict)} :
           /\ transactions_table' = out.db.transactions
           /\ positions_table' = out.db.positions
           /\ custodians_table' = out.db.custodians
           /\ audit_log' = out.db.audit_log
           /\ save_outcome' = out.outcome
    /\ save_tx' = t
    /\ prev_transactions_table' = transactions_table
    /\ prev_positions_table' = positions_table
    /\ prev_custodians_table' = custodians_table
    /\ inserts_only' = (inserts_only /\ t.id = 0)
    /\ nSaves' = nSaves + 1
    /\ rebuilds_in_a_row' = 0
    /\ UNCHANGED <<tax_losses_table, last_rebuild, first_run_from, nRebuilds, tax_calls>>
    /\ UNCHANGED <<calcVars, taxVars, queueVars>>

\* execute with a new transaction (id None)
SaveNew ==
    \E t \in NewInputs, strict \in BOOLEAN :
        /\ Save(WithField(t, "id", 0), strict)

\* execute with an edited stored transaction
SaveEdited ==
    \E k \in 1..Len(transactions_table), strict \in BOOLEAN :
        \E t \in Edits(transactions_table[k]) :
            /\ t.id # 0
            /\ Save(t, strict)

NextSave ==
    \/ SaveNew
    \/ SaveEdited

SpecSave == Init /\ [][NextSave]_vars

\* ------------------------------------------------------------------ write queue
\* WriteQueueManager. Client threads call start(), stop() and submit(); each
\* thread that a start() call creates runs _worker. The manager takes no
\* lock of its own, so a step is one access to what the threads share
\* (_running, _thread, the queue) and steps of different threads interleave
\* freely. queue.Queue is thread-safe: a put or a get is one step.

\* Future(): not yet completed
Future == [state |-> "pending", value |-> None]

\* what the k-th callable returns when it returns
ReturnOf(k) == [kind |-> "value", fn |-> k]

\* the exception the k-th callable raises when it raises
ErrorOf(k) == [kind |-> "Exception", fn |-> k]

\* the exception session.commit() raises when the commit of the k-th
\* callable's session fails
CommitErrorOf(k) == [kind |-> "Exception", commit_of |-> k]

\* self._session_factory(): a new session, here for the k-th callable
Session(k) == [state |-> "open", closed |-> FALSE, fn |-> k]

\* a thread at the top of the loop of _worker
Worker == [pc |-> "get", item |-> None, session |-> 0, outcome |-> None]

\* a client thread enters a call of the manager
Enters(c) ==
    /\ client[c] = "idle"
    /\ nOps < MaxOps
    /\ nOps' = nOps + 1

\* start(): 'if self._running: return'
StartCheck(c) ==
    /\ Enters(c)
    /\ client' = [client EXCEPT ![c] = IF _running THEN "idle" ELSE "start_set"]
    /\ UNCHANGED <<_running, _thread, _queue, workers, futures, sessions, executed>>
    /\ UNCHANGED <<calcVars, taxVars, dbVars>>

\* start(): 'self._running = True'
StartSet(c) ==
    /\ client[c] = "start_set"
    /\ _running' = TRUE
    /\ client' = [client EXCEPT ![c] = "start_thread"]
    /\ UNCHANGED <<_thread, _queue, workers, futures, sessions, executed, nOps>>
    /\ UNCHANGED <<calcVars, taxVars, dbVars>>

\* start(): 'self._thread = threading.Thread(target=self._worker, ...)' and
\* 'self._thread.start()'
StartThread(c) ==
    /\ client[c] = "start_thread"
    /\ workers' = Append(workers, Worker)
    /\ _thread' = Len(workers) + 1
    /\ client' = [client EXCEPT ![c] = "idle"]
    /\ UNCHANGED <<_running, _queue, futures, sessions, executed, nOps>>
    /\ UNCHANGED <<calcVars, taxVars, dbVars>>

\* stop(): 'if not self._running: return'
StopCheck(c) ==
    /\ Enters(c)
    /\ client' = [client EXCEPT ![c] = IF _running THEN "stop_clear" ELSE "idle"]
    /\ UNCHANGED <<_running, _thread, _queue, workers, futures, sessions, executed>>
    /\ UNCHANGED <<calcVars, taxVars, dbVars>>

\* stop(): 'self._running = False'
StopClear(c) ==
    /\ client[c] = "stop_clear"
    /\ _running' = FALSE
    /\ client' = [client EXCEPT ![c] = "stop_put"]
    /\ UNCHANGED <<_thread, _queue, workers, futures, sessions, executed, nOps>>
    /\ UNCHANGED <<calcVars, taxVars, dbVars>>

\* stop(): 'self._queue.put(None)'
StopPut(c) ==
    /\ client[c] = "stop_put"
    /\ _queue' = Append(_queue, None)
    /\ client' = [client EXCEPT ![c] = "stop_join"]
    /\ UNCHANGED <<_running, _thread, workers, futures, sessions, executed, nOps>>
    /\ UNCHANGED <<calcVars, taxVars, dbVars>>

\* stop(): 'if self._thread: self._thread.join(timeout=timeout)'. The join
\* returns when the thread has ended or when the timeout has passed,
\* whichever comes first: the call returns whatever the worker is doing.
StopJoin(c) ==
    /\ client[c] = "stop_join"
    /\ client' = [client EXCEPT ![c] = "idle"]
    /\ UNCHANGED <<_running, _thread, _queue, workers, futures, sessions, executed, nOps>>
    /\ UNCHANGED <<calcVars, taxVars, dbVars>>

\* submit(fn): a new Future, put on the queue with the callable as the tuple
\* (fn, future); the k-th submit puts the callable k and the Future k
submit(c) ==
    /\ Enters(c)
    /\ futures' = Append(futures, Future)
    /\ _queue' = Append(_queue, [kind |-> "item", fn |-> Len(futures) + 1,
                                  future |-> Len(futures) + 1])
    /\ UNCHANGED <<_running, _thread, workers, sessions, client, executed>>
    /\ UNCHANGED <<calcVars, taxVars, dbVars>>

\* _worker: 'item = self._queue.get()', which blocks while the queue is
\* empty, and 'if item is None: break'
WorkerGet(w) ==
    /\ w \in DOMAIN workers
    /\ workers[w].pc = "get"
    /\ _queue # <<>>
    /\ _queue' = Tail(_queue)
    /\ workers' = [workers EXCEPT ![w] =
                            IF Head(_queue) = None
                            THEN [workers[w] EXCEPT !.pc = "exited"]
                            ELSE [workers[w] EXCEPT !.pc = "factory",
                                                    !.item = Head(_queue)]]
    /\ UNCHANGED <<_running, _thread, futures, sessions, client, executed, nOps>>
    /\ UNCHANGED <<calcVars, taxVars, dbVars>>

\* _worker: 'session = self._session_factory()' and the call 'fn(session)'
\* is entered
WorkerBegin(w) ==
    /\ w \in DOMAIN workers
    /\ workers[w].pc = "factory"
    /\ sessions' = Append(sessions, Session(workers[w].item.fn))
    /\ workers' = [workers EXCEPT ![w] = [workers[w] EXCEPT !.pc = "call",
                                                          !.session = Len(sessions) + 1]]
    /\ executed' = Append(executed, workers[w].item.fn)
    /\ UNCHANGED <<_running, _thread, _queue, futures, client, nOps>>
    /\ UNCHANGED <<calcVars, taxVars, dbVars>>

\* _worker: 'result = fn(session)' returns, or raises an Exception
WorkerCall(w) ==
    /\ w \in DOMAIN workers
    /\ workers[w].pc = "call"
    /\ \E outcome \in {ReturnOf(workers[w].item.fn), ErrorOf(workers[w].item.fn)} :
           workers' = [workers EXCEPT ![w] =
                               [workers[w] EXCEPT
                                   !.pc = IF outcome.kind = "value" THEN "commit"
                                          ELSE "except",
                                   !.outcome = outcome]]
    /\ UNCHANGED <<_running, _thread, _queue, futures, sessions, client, executed, nOps>>
    /\ UNCHANGED <<calcVars, taxVars, dbVars>>

\* Mutant of WorkerCommitted: the Future is completed, the session is left
\* uncommitted.
WorkerCommitted_no_commit(w) ==
    /\ futures' = [futures EXCEPT ![workers[w].item.future] =
                            [state |-> "result", value |-> workers[w].outcome]]
    /\ workers' = [workers EXCEPT ![w] = [workers[w] EXCEPT !.pc = "finally"]]
    /\ UNCHANGED sessions

\* _worker: 'session.commit()' succeeds and 'future.set_result(result)'
WorkerCommitted(w) ==
    /\ sessions' = [sessions EXCEPT ![workers[w].session] =
                             [sessions[workers[w].session] EXCEPT !.state = "committed"]]
    /\ futures' = [futures EXCEPT ![workers[w].item.future] =
                            [state |-> "result", value |-> workers[w].outcome]]
    /\ workers' = [workers EXCEPT ![w] = [workers[w] EXCEPT !.pc = "finally"]]

\* _worker: 'session.commit()' raises an Exception
WorkerCommitRaised(w) ==
    /\ workers' = [workers EXCEPT ![w] =
                            [workers[w] EXCEPT
                                !.pc = "except",
                                !.outcome = CommitErrorOf(workers[w].item.fn)]]
    /\ UNCHANGED <<futures, sessions>>

\* _worker: the commit and the completion of the Future with the result
WorkerCommit(w) ==
    /\ w \in DOMAIN workers
    /\ workers[w].pc = "commit"
    /\ WorkerCommitted(w) \/ WorkerCommitRaised(w)
    /\ UNCHANGED <<_running, _thread, _queue, client, executed, nOps>>
    /\ UNCHANGED <<calcVars, taxVars, dbVars>>

\* _worker: 'except Exception as exc: session.rollback();
\* future.set_exception(exc)'
WorkerExcept(w) ==
    /\ w \in DOMAIN workers
    /\ workers[w].pc = "except"
    /\ sessions' = [sessions EXCEPT ![workers[w].session] =
                             [sessions[workers[w].session] EXCEPT !.state = "rolled_back"]]
    /\ futures' = [futures EXCEPT ![workers[w].item.future] =
                            [state |-> "exception", value |-> workers[w].outcome]]
    /\ workers' = [workers EXCEPT ![w] = [workers[w] EXCEPT !.pc = "finally"]]
    /\ UNCHANGED <<_running, _thread, _queue, client, executed, nOps>>
    /\ UNCHANGED <<calcVars, taxVars, dbVars>>

\* _worker: 'finally: session.close()', and back to the top of the loop
WorkerFinally(w) ==
    /\ w \in DOMAIN workers
    /\ workers[w].pc = "finally"
    /\ sessions' = [sessions EXCEPT ![workers[w].session] =
                             [sessions[workers[w].session] EXCEPT !.closed = TRUE]]
    /\ workers' = [workers EXCEPT ![w] = Worker]
    /\ UNCHANGED <<_running, _thread, _queue, futures, client, executed, nOps>>
    /\ UNCHANGED <<calcVars, taxVars, dbVars>>

\* a step of the worker thread w
_worker(w) ==
    \/ WorkerGet(w)
    \/ WorkerBegin(w)
    \/ WorkerCall(w)
    \/ WorkerCommit(w)
    \/ WorkerExcept(w)
    \/ WorkerFinally(w)

\* a step of the client thread c inside start()
start(c) == StartCheck(c) \/ StartSet(c) \/ StartThread(c)

\* a step of the client thread c inside stop()
stop(c) == StopCheck(c) \/ StopClear(c) \/ StopPut(c) \/ StopJoin(c)

NextQueue ==
    \/ \E c \in Clients : start(c)
    \/ \E c \in Clients : stop(c)
    \/ \E c \in Clients : submit(c)
    \/ \E w \in 1..MaxOps : _worker(w)

SpecQueue == Init /\ [][NextQueue]_vars

\* a step that carries on a start() or stop() call already entered
ClientReturns(c) ==
    StartSet(c) \/ StartThread(c) \/ StopClear(c) \/ StopPut(c) \/ StopJoin(c)

\* the runs in which every worker thread is scheduled while it has a step
\* to take (a callable called returns or raises, a worker with an item to
\* get gets it) and every client thread finishes the call it is in
SpecQueueFair ==
    /\ SpecQueue
    /\ \A w \in 1..MaxOps : WF_vars(_worker(w))
    /\ \A c \in Clients : WF_vars(ClientReturns(c))

\* ------------------------------------------------------------------ properties
\* The state after a process call holds the call's transaction (tx), what it
\* returned (result) and the engine as it was before (prevPositions,
\* prevGlobals), so a statement about one call is a state predicate.

Rows == 1..Len(positions)

PrevRows == 1..Len(prevPositions)

\* the row of the last transaction's key, after and before the call
TxRow == KeyIndex(positions, tx.ticker, tx.institution)

PrevTxRow == KeyIndex(prevPositions, tx.ticker, tx.institution)

\* the row's fields before the call (zero when the call created the row)
PrevTxPos ==
    IF PrevTxRow = 0
    THEN _MutablePosition(tx.ticker, tx.asset_class, tx.currency, tx.institution)
    ELSE prevPositions[PrevTxRow]

\* a ticker's aggregate, zero when the ticker has none yet
GlobalOf(G, ticker) == IF ticker \in DOMAIN G THEN G[ticker] ELSE _TickerGlobal

\* the transactions after which the engine propagates the average
Propagating(t) ==
    \/ t.type \in {"BUY", "SELL", "BONUS"}
    \/ t.type \in {"SPLIT", "INPLIT"} /\ t.quantity > 0

\* C1 as stated: after every process call every row of every ticker, whatever
\* its quantity, carries the ticker's global average price.
C1_EveryRowCarriesGlobalAvg ==
    \A i \in Rows : positions[i].avg_price = GlobalAvg(globals, positions[i].ticker)

\* C1 amended: after every process call every row that holds a quantity > 0
\* carries its ticker's global average price, and after a BUY, SELL, BONUS or
\* a SPLIT/INPLIT with a positive factor every row of the transaction's
\* ticker does, whatever its quantity.
C1_HeldRowsCarryGlobalAvg ==
    /\ \A i \in Rows :
         positions[i].quantity > 0
           => positions[i].avg_price = GlobalAvg(globals, positions[i].ticker)
    /\ Propagating(tx)
         => \A i \in Rows :
              positions[i].ticker = tx.ticker
                => positions[i].avg_price = GlobalAvg(globals, tx.ticker)

\* C1 witness: a BUY at one institution moved the ticker's average while
\* another institution holds the ticker, and both rows show the new average.
C1_Witness ==
    /\ tx.type = "BUY"
    /\ GlobalAvg(globals, tx.ticker) # GlobalAvg(prevGlobals, tx.ticker)
    /\ GlobalAvg(prevGlobals, tx.ticker) > 0
    /\ \E i \in Rows :
         /\ positions[i].ticker = tx.ticker
         /\ positions[i].institution # tx.institution
         /\ positions[i].quantity > 0
         /\ positions[i].avg_price = GlobalAvg(globals, tx.ticker)

\* C2: the sale event of a SELL has proceeds = round2(sold quantity x sale
\* price), cost_of_sold = round2(sold quantity x the ticker's global average
\* held before the SELL), avg_cost = that average and gain_loss = proceeds -
\* cost_of_sold, whatever the selling institution itself paid.
C2_SaleEventUsesGlobalAvg ==
    tx.type = "SELL" =>
        /\ result.kind = "SaleResult"
        /\ result.sell_qty = tx.quantity
        /\ result.proceeds = round_monetary_mul(tx.quantity, tx.price)
        /\ result.avg_cost = GlobalAvg(prevGlobals, tx.ticker)
        /\ result.cost_of_sold =
             round_monetary_mul(tx.quantity, GlobalAvg(prevGlobals, tx.ticker))
        /\ result.gain_loss = result.proceeds - result.cost_of_sold

\* C2 witness: XP holds one share and BTG two, the global average is 10.01
\* (XP's share was bought at 10.00), and XP sells at the global average.
C2_Witness ==
    /\ tx.type = "SELL"
    /\ tx.ticker = "PETR4"
    /\ tx.institution = "XP"
    /\ tx.quantity = Shares(1)
    /\ PrevTxPos.quantity = Shares(1)
    /\ \E j \in PrevRows :
         /\ prevPositions[j].ticker = "PETR4"
         /\ prevPositions[j].institution = "BTG"
         /\ prevPositions[j].quantity = Shares(2)
    /\ GlobalAvg(prevGlobals, "PETR4") = Cents(10, 1)
    /\ result.avg_cost = Cents(10, 1)
    /\ result.cost_of_sold = Cents(10, 1)

\* C3: while a ticker has seen BUYs only, its global average is round2(sum of
\* round2(quantity_i x price_i) / sum of quantity_i) over the BUYs so far, and
\* every institution row of the ticker carries that average.
C3_BuyOnlyAverage ==
    \A t \in Tickers :
        hist[t].buyOnly /\ hist[t].quantity > 0 =>
            /\ t \in DOMAIN globals
            /\ globals[t].total_cost = hist[t].cost
            /\ globals[t].quantity = hist[t].quantity
            /\ globals[t].avg_price = round_monetary_div(hist[t].cost, hist[t].quantity)
            /\ \A i \in Rows :
                 positions[i].ticker = t
                   => positions[i].avg_price
                        = round_monetary_div(hist[t].cost, hist[t].quantity)

\* C3 witness: three BUYs of one ticker over two institutions whose total
\* cost over total quantity is not a whole number of cents.
C3_Witness ==
    /\ nProcessed = 3
    /\ hist["PETR4"].buyOnly
    /\ hist["PETR4"].quantity > 0
    /\ (hist["PETR4"].cost * QtyScale) % hist["PETR4"].quantity # 0
    /\ \E i, j \in Rows :
         /\ i # j
         /\ positions[i].ticker = "PETR4" /\ positions[i].quantity > 0
         /\ positions[j].ticker = "PETR4" /\ positions[j].quantity > 0

\* C4: while every transaction had a quantity field > 0 (and a price >= 0),
\* every row and every aggregate has quantity >= 0 and total cost >= 0; a SELL
\* of more than its row holds still returns a sale event and leaves the row
\* at quantity 0 and total cost 0, and likewise the aggregate when the sale
\* exceeds its quantity.
C4_NeverNegativeAndClamped ==
    positiveOnly =>
        /\ \A i \in Rows : positions[i].quantity >= 0 /\ positions[i].total_cost >= 0
        /\ \A t \in DOMAIN globals : globals[t].quantity >= 0 /\ globals[t].total_cost >= 0
        /\ (tx.type = "SELL" /\ tx.quantity > PrevTxPos.quantity) =>
              /\ result.kind = "SaleResult"
              /\ positions[TxRow].quantity = 0
              /\ positions[TxRow].total_cost = 0
        /\ (tx.type = "SELL" /\ tx.quantity > GlobalOf(prevGlobals, tx.ticker).quantity) =>
              /\ globals[tx.ticker].quantity = 0
              /\ globals[tx.ticker].total_cost = 0

\* C4 witness: a SELL of more than the row holds, from a row that held
\* something, while another institution still holds the ticker.
C4_Witness ==
    /\ positiveOnly
    /\ tx.type = "SELL"
    /\ PrevTxPos.quantity > 0
    /\ tx.quantity > PrevTxPos.quantity
    /\ positions[TxRow].quantity = 0
    /\ \E i \in Rows : positions[i].ticker = tx.ticker /\ positions[i].quantity > 0

\* the one row of scenario A
ScenarioRow(shares, avg, cost) ==
    [ticker |-> "PETR4", asset_class |-> "ACAO", currency |-> "BRL",
     institution |-> "XP", quantity |-> Shares(shares), avg_price |-> avg,
     total_cost |-> cost]

ScenarioTx(type, shares, reais) ==
    Transaction("PETR4", "XP", type, Shares(shares), Cents(reais, 0))

ScenarioTwoBuys == <<ScenarioTx("BUY", 100, 30), ScenarioTx("BUY", 50, 36)>>

ScenarioThenSell == Append(ScenarioTwoBuys, ScenarioTx("SELL", 40, 35))

\* C5 as stated: BUY 100 @ 30.00, BUY 50 @ 36.00 give average 32.00, total
\* cost 4800.00, quantity 150; SELL 40 @ 35.00 then has gain/loss 200.00 and
\* leaves quantity 110 and total cost 3520.00.
C5_ScenarioGain200 ==
    /\ log = ScenarioTwoBuys
         => positions = <<ScenarioRow(150, Cents(32, 0), Cents(4800, 0))>>
    /\ log = ScenarioThenSell
         => /\ result.kind = "SaleResult"
            /\ result.gain_loss = Cents(200, 0)
            /\ positions = <<ScenarioRow(110, Cents(32, 0), Cents(3520, 0))>>

\* C5 amended: the same scenario, with the SELL's gain/loss 120.00
\* (proceeds 1400.00 less 40 x 32.00 = 1280.00).
C5_ScenarioGain120 ==
    /\ log = ScenarioTwoBuys
         => positions = <<ScenarioRow(150, Cents(32, 0), Cents(4800, 0))>>
    /\ log = ScenarioThenSell
         => /\ result.kind = "SaleResult"
            /\ result.proceeds = Cents(1400, 0)
            /\ result.cost_of_sold = Cents(1280, 0)
            /\ result.gain_loss = Cents(120, 0)
            /\ positions = <<ScenarioRow(110, Cents(32, 0), Cents(3520, 0))>>

\* C5 witness: the scenario has run to its SELL.
C5_Witness ==
    /\ log = ScenarioThenSell
    /\ result.kind = "SaleResult"
    /\ result.avg_cost = Cents(32, 0)
    /\ prevPositions = <<ScenarioRow(150, Cents(32, 0), Cents(4800, 0))>>

\* C6 as stated: a SELL never changes the ticker's global average price.
C6_SellKeepsGlobalAvg ==
    tx.type = "SELL"
      => GlobalAvg(globals, tx.ticker) = GlobalAvg(prevGlobals, tx.ticker)

\* C6 amended: a SELL that leaves the ticker's global quantity above zero
\* does not change the global average price; a SELL that brings the global
\* quantity to zero (or would bring it below) resets the aggregate's
\* quantity, total cost and average price to 0.
C6_SellKeepsAvgWhileHeld ==
    tx.type = "SELL" =>
        IF GlobalOf(prevGlobals, tx.ticker).quantity - tx.quantity > 0
        THEN /\ globals[tx.ticker].avg_price = GlobalAvg(prevGlobals, tx.ticker)
             /\ globals[tx.ticker].quantity
                  = GlobalOf(prevGlobals, tx.ticker).quantity - tx.quantity
        ELSE globals[tx.ticker] = _TickerGlobal

\* C6 witness: a SELL of part of a holding whose reduced total cost over the
\* reduced quantity would round to another average than the one kept.
C6_Witness ==
    /\ tx.type = "SELL"
    /\ globals[tx.ticker].quantity > 0
    /\ globals[tx.ticker].avg_price > 0
    /\ globals[tx.ticker].avg_price = GlobalAvg(prevGlobals, tx.ticker)
    /\ round_monetary_div(globals[tx.ticker].total_cost, globals[tx.ticker].quantity)
         # globals[tx.ticker].avg_price

\* C7: for a row with positive quantity, a SPLIT with factor f > 0 sets the
\* row's quantity to round8(quantity x f) and an INPLIT to round8(quantity /
\* f), and the row's total cost and the ticker's global total cost are what
\* they were before.
C7_SplitKeepsTotalCost ==
    (tx.type \in {"SPLIT", "INPLIT"} /\ tx.quantity > 0 /\ PrevTxPos.quantity > 0) =>
        /\ positions[TxRow].quantity =
             IF tx.type = "SPLIT"
             THEN round_qty_mul(PrevTxPos.quantity, tx.quantity)
             ELSE round_qty_div(PrevTxPos.quantity, tx.quantity)
        /\ positions[TxRow].total_cost = PrevTxPos.total_cost
        /\ globals[tx.ticker].total_cost = GlobalOf(prevGlobals, tx.ticker).total_cost

\* C8: a BONUS with positive quantity on a ticker whose global quantity was
\* positive strictly increases the row's and the global quantity, leaves the
\* row's and the global total cost unchanged and strictly lowers the global
\* average price.
C8_BonusLowersAverage ==
    (/\ tx.type = "BONUS"
     /\ tx.quantity > 0
     /\ GlobalOf(prevGlobals, tx.ticker).quantity > 0) =>
        /\ positions[TxRow].quantity > PrevTxPos.quantity
        /\ globals[tx.ticker].quantity > prevGlobals[tx.ticker].quantity
        /\ positions[TxRow].total_cost = PrevTxPos.total_cost
        /\ globals[tx.ticker].total_cost = prevGlobals[tx.ticker].total_cost
        /\ globals[tx.ticker].avg_price < prevGlobals[tx.ticker].avg_price

\* C9 as stated: a DIVIDEND or JCP returns no sale event, and the snapshot of
\* get_positions (the rows and every field of every row) and all aggregates
\* are after the call what they were before.
C9_DividendChangesNothing ==
    tx.type \in {"DIVIDEND", "JCP"} =>
        /\ result = None
        /\ get_positions(positions) = get_positions(prevPositions)
        /\ globals = prevGlobals

\* C9 amended: a DIVIDEND or JCP returns no sale event and leaves every
\* aggregate and every row that existed before the call as it was; when the
\* transaction's (ticker, institution) had no row yet, the snapshot gains one
\* row for it, at quantity 0, average price 0 and total cost 0, after the
\* rows it had.
C9_DividendOnlyCreatesZeroRow ==
    tx.type \in {"DIVIDEND", "JCP"} =>
        /\ result = None
        /\ globals = prevGlobals
        /\ get_positions(positions) =
             IF PrevTxRow # 0
             THEN get_positions(prevPositions)
             ELSE Append(get_positions(prevPositions),
                         [ticker |-> tx.ticker, asset_class |-> tx.asset_class,
                          quantity |-> 0, avg_price |-> 0, currency |-> tx.currency,
                          total_cost |-> 0, institution |-> tx.institution])

\* C9 witness: a DIVIDEND at an institution that has no row of the ticker,
\* while another institution holds the ticker at a non-zero average.
C9_Witness ==
    /\ tx.type = "DIVIDEND"
    /\ PrevTxRow = 0
    /\ GlobalAvg(prevGlobals, tx.ticker) > 0
    /\ \E i \in PrevRows :
         prevPositions[i].ticker = tx.ticker /\ prevPositions[i].quantity > 0
    /\ Len(positions) = Len(prevPositions) + 1

\* C10: a SPLIT, INPLIT or BONUS whose quantity field is <= 0 leaves every
\* position row and every ticker-global aggregate as it was before the call.
C10_NonPositiveFactorIsNoOp ==
    (tx.type \in {"SPLIT", "INPLIT", "BONUS"} /\ tx.quantity <= 0) =>
        /\ \A i \in PrevRows : positions[i] = prevPositions[i]
        /\ \A t \in DOMAIN prevGlobals : globals[t] = prevGlobals[t]


TaxRows == 1..Len(tax_results)

\* the group a tax result belongs to
KeyOf(r) == <<r.asset_class, r.trade_type>>

\* the month's total gain and total proceeds, in BRL, of the group of r
TotalsOf(r) == SumGroup(sale_results, KeyOf(r), 1)

\* the loss the ledger carried into the call for the group of r
CarriedIn(r) == LossOf(prevLosses, KeyOf(r))

\* r is the result of an exempt group: nothing taxed, nothing withheld,
\* nothing payable, the carried loss passed through
ExemptTreatment(r) ==
    /\ r.taxable_gain = 0
    /\ r.tax_due = 0
    /\ r.irrf_withheld = 0
    /\ r.darf_to_pay = 0
    /\ r.accumulated_loss_after = r.accumulated_loss_before

\* r is the result of a taxed group of total gain G: the whole of G meets the
\* carried loss L, what exceeds L is the taxable gain
TaxedTreatment(r) ==
    LET G == TotalsOf(r).gain
        L == CarriedIn(r)
        pct == IF r.trade_type = "DAY_TRADE" THEN 20 ELSE 15
    IN  IF G < L \/ G < 0
        THEN /\ r.taxable_gain = 0
             /\ r.accumulated_loss_after = L - G
        ELSE /\ r.taxable_gain = G - L
             /\ r.tax_due = RoundHalfUp((G - L) * pct, 100)
             /\ r.accumulated_loss_after = 0

\* ------------------------------------------------------------------ C12
\* C12: calculate_monthly_tax treats a group as exempt if and only if it is
\* swing-trade, of asset class ACAO and its sales' BRL proceeds sum to at most
\* 20000.00: exactly 20000.00 is exempt, 20000.01 is taxed on the full gain,
\* and day-trade and non-ACAO groups are taxed whatever their proceeds.
C12_ExemptIffSwingStockWithinLimit ==
    \A i \in TaxRows :
        LET r == tax_results[i]
        IN  IF /\ r.trade_type = "SWING_TRADE"
               /\ r.asset_class = "ACAO"
               /\ TotalsOf(r).proceeds <= Cents(20000, 0)
            THEN ExemptTreatment(r)
            ELSE TaxedTreatment(r)

\* a swing-trade ACAO group of two sales with a gain, whose proceeds sum to
\* exactly 20000.00, came out exempt
C12_Witness ==
    /\ Len(sale_results) = 2
    /\ \E i \in TaxRows :
          LET r == tax_results[i]
          IN  /\ KeyOf(r) = <<"ACAO", "SWING_TRADE">>
              /\ TotalsOf(r).proceeds = Cents(20000, 0)
              /\ TotalsOf(r).gain > 0
              /\ sale_results[1].proceeds < Cents(20000, 0)
              /\ r.taxable_gain = 0


\* ------------------------------------------------------------------ C13
\* the group of r is one the monthly exemption applies to
ExemptGroup(r) ==
    /\ r.trade_type = "SWING_TRADE"
    /\ r.asset_class = "ACAO"
    /\ TotalsOf(r).proceeds <= Cents(20000, 0)

\* C13: for an exempt group the tax result has taxable gain, tax due,
\* withholding and net payable all 0, its loss carried in and loss carried
\* out both equal the group's ledger entry before the call, and the call
\* leaves that ledger entry as it was (not changed, not created), whatever
\* the sign of the group's total gain and whatever loss was carried in.
C13_ExemptGroupLeavesLedger ==
    \A i \in TaxRows :
        LET r == tax_results[i]
        IN  ExemptGroup(r) =>
              /\ r.taxable_gain = 0
              /\ r.tax_due = 0
              /\ r.irrf_withheld = 0
              /\ r.darf_to_pay = 0
              /\ r.accumulated_loss_before = CarriedIn(r)
              /\ r.accumulated_loss_after = CarriedIn(r)
              /\ (KeyOf(r) \in DOMAIN accumulated_losses) = (KeyOf(r) \in DOMAIN prevLosses)
              /\ LossOf(accumulated_losses, KeyOf(r)) = CarriedIn(r)

\* an exempt group with a net loss for the month, and a loss carried in from
\* an earlier month
C13_Witness ==
    \E i \in TaxRows :
        LET r == tax_results[i]
        IN  /\ ExemptGroup(r)
            /\ TotalsOf(r).gain < 0
            /\ CarriedIn(r) > 0
            /\ accumulated_losses[KeyOf(r)] = CarriedIn(r)


\* ------------------------------------------------------------------ C14
\* the result of a group whose gain stays below the loss carried in: nothing
\* taxed, and loss carried in - gain carried out and left in the ledger
CarriesDifference(r) ==
    /\ r.taxable_gain = 0
    /\ r.tax_due = 0
    /\ r.accumulated_loss_after = CarriedIn(r) - TotalsOf(r).gain
    /\ r.accumulated_loss_after >= 0
    /\ KeyOf(r) \in DOMAIN accumulated_losses
    /\ accumulated_losses[KeyOf(r)] = r.accumulated_loss_after

\* C14 as stated: for every group whose month total gain is smaller than
\* the loss carried in (a net-loss month included), taxable gain and tax due
\* are 0 and the loss carried out, which is the ledger entry after the call,
\* is loss carried in - gain, never negative.
C14_GainBelowLossCarriesDifference ==
    \A i \in TaxRows :
        TotalsOf(tax_results[i]).gain < CarriedIn(tax_results[i]) =>
            CarriesDifference(tax_results[i])

\* C14, amended: the same for every group the monthly exemption does not
\* apply to; an exempt group carries its loss out as it came in.
C14_TaxedGainBelowLossCarriesDifference ==
    \A i \in TaxRows :
        LET r == tax_results[i]
        IN  TotalsOf(r).gain < CarriedIn(r) =>
                IF ExemptGroup(r)
                THEN /\ r.taxable_gain = 0
                     /\ r.tax_due = 0
                     /\ r.accumulated_loss_after = CarriedIn(r)
                ELSE CarriesDifference(r)

\* a taxed group with a gain above 0 and below the loss carried in, the
\* difference left in the ledger
C14_Witness ==
    \E i \in TaxRows :
        LET r == tax_results[i]
        IN  /\ ~ExemptGroup(r)
            /\ CarriedIn(r) > 0
            /\ TotalsOf(r).gain > 0
            /\ TotalsOf(r).gain < CarriedIn(r)
            /\ accumulated_losses[KeyOf(r)] = CarriedIn(r) - TotalsOf(r).gain


\* ------------------------------------------------------------------ C15
\* round2(value * num / den), ties away from zero
Round2Of(value, num, den) == RoundHalfUp(value * num, den)

\* the larger of a and b
Max(a, b) == IF a >= b THEN a ELSE b

\* C15: for a group the exemption does not apply to, with month total gain
\* G >= the loss carried in L: taxable gain = G - L, the ledger entry is reset
\* to 0, tax due = round2(taxable * rate) with rate 0.15 (swing-trade) or 0.20
\* (day-trade), withholding = round2(0.00005 * total proceeds) (swing-trade)
\* or round2(0.01 * G) if G > 0 else 0 (day-trade), and net payable =
\* max(tax due - withholding, 0) >= 0.  A day-trade group with G = 2000.00,
\* proceeds 30000.00 (nothing carried in) has tax due 400.00, withholding
\* 20.00, net payable 380.00; a swing-trade ACAO group above the limit with
\* L = 300.00 and G = 1000.00 has taxable gain 700.00 and tax due 105.00.
C15_TaxableGainTaxAndWithholding ==
    \A i \in TaxRows :
        LET r == tax_results[i]
            G == TotalsOf(r).gain
            P == TotalsOf(r).proceeds
            L == CarriedIn(r)
            day == r.trade_type = "DAY_TRADE"
        IN  (~ExemptGroup(r) /\ G >= L) =>
              /\ r.taxable_gain = G - L
              /\ KeyOf(r) \in DOMAIN accumulated_losses
              /\ accumulated_losses[KeyOf(r)] = 0
              /\ r.accumulated_loss_after = 0
              /\ r.tax_rate = IF day THEN [num |-> 20, den |-> 100]
                              ELSE [num |-> 15, den |-> 100]
              /\ r.tax_due = Round2Of(G - L, r.tax_rate.num, r.tax_rate.den)
              /\ r.irrf_withheld = IF day
                                   THEN IF G > 0 THEN Round2Of(G, 1, 100) ELSE 0
                                   ELSE Round2Of(P, 5, 100000)
              /\ r.darf_to_pay = Max(r.tax_due - r.irrf_withheld, 0)
              /\ r.darf_to_pay >= 0
              /\ (day /\ G = Cents(2000, 0) /\ P = Cents(30000, 0) /\ L = 0) =>
                    /\ r.tax_due = Cents(400, 0)
                    /\ r.irrf_withheld = Cents(20, 0)
                    /\ r.darf_to_pay = Cents(380, 0)
              /\ (~day /\ r.asset_class = "ACAO" /\ L = Cents(300, 0)
                       /\ G = Cents(1000, 0)) =>
                    /\ r.taxable_gain = Cents(700, 0)
                    /\ r.tax_due = Cents(105, 0)

\* one month holds both scenarios: the day-trade group with gain 2000.00 on
\* proceeds 30000.00, and the swing-trade ACAO group with gain 1000.00 above
\* the limit after 300.00 carried in
C15_Witness ==
    /\ \E i \in TaxRows :
          LET r == tax_results[i]
          IN  /\ r.trade_type = "DAY_TRADE"
              /\ TotalsOf(r).gain = Cents(2000, 0)
              /\ TotalsOf(r).proceeds = Cents(30000, 0)
              /\ r.darf_to_pay = Cents(380, 0)
    /\ \E i \in TaxRows :
          LET r == tax_results[i]
          IN  /\ KeyOf(r) = <<"ACAO", "SWING_TRADE">>
              /\ ~ExemptGroup(r)
              /\ CarriedIn(r) = Cents(300, 0)
              /\ TotalsOf(r).gain = Cents(1000, 0)
              /\ r.tax_due = Cents(105, 0)


\* ------------------------------------------------------------------ C16
\* the (asset class, trade type) pairs that occur among the sale events given
InputKeys == {GroupKey(sale_results[j]) : j \in 1..Len(sale_results)}

\* every pair there is: AssetClass x TradeType
AllKeys ==
    {"ACAO", "FII", "ETF", "BDR", "RENDA_FIXA", "CRIPTO"} \X {"SWING_TRADE", "DAY_TRADE"}

\* C16: calculate_monthly_tax returns exactly one tax result for each
\* distinct (asset class, trade type) pair among the sale events given and
\* none for any other pair, and the ledger entries of the pairs absent from
\* the input are as before the call: not modified, not created.
C16_OneResultPerGroupOthersUntouched ==
    /\ \A k \in InputKeys :
          Cardinality({i \in TaxRows : KeyOf(tax_results[i]) = k}) = 1
    /\ \A i \in TaxRows : KeyOf(tax_results[i]) \in InputKeys
    /\ DOMAIN accumulated_losses \subseteq AllKeys
    /\ \A k \in AllKeys \ InputKeys :
          /\ (k \in DOMAIN accumulated_losses) = (k \in DOMAIN prevLosses)
          /\ LossOf(accumulated_losses, k) = LossOf(prevLosses, k)

\* a month of two sale events of one pair (one result for both), while the
\* ledger keeps the loss of another pair, absent from this month
C16_Witness ==
    /\ Len(sale_results) = 2
    /\ Cardinality(InputKeys) = 1
    /\ Len(tax_results) = 1
    /\ \E k \in DOMAIN prevLosses \ InputKeys :
          /\ prevLosses[k] > 0
          /\ accumulated_losses[k] = prevLosses[k]


\* ------------------------------------------------------------------ C19
\* before the call the ticker of tx was held at the institution of tx and
\* nowhere else, and tx is for exactly the quantity held there
SellsAllHeld ==
    /\ tx.type = "SELL"
    /\ PrevTxRow # 0
    /\ prevPositions[PrevTxRow].quantity > 0
    /\ tx.quantity = prevPositions[PrevTxRow].quantity
    /\ \A i \in PrevRows :
          (prevPositions[i].ticker = tx.ticker /\ i # PrevTxRow) =>
              prevPositions[i].quantity = 0

\* C19: after a SELL of exactly the whole quantity held of a ticker, held at
\* a single institution, the position row of that ticker has quantity 0,
\* average price 0 and total cost 0.
C19_SellAllZeroesRow ==
    SellsAllHeld =>
        \A i \in Rows :
            positions[i].ticker = tx.ticker =>
                /\ positions[i].quantity = 0
                /\ positions[i].avg_price = 0
                /\ positions[i].total_cost = 0

\* ------------------------------------------------------------------ C20
\* the sum of the quantities of the rows of a ticker
RowsQuantity(P, ticker) ==
    SumRows(P, ticker, 1, [quantity |-> ZERO, total_cost |-> ZERO]).quantity

\* the quantity the row of tx held before the call (0 when it did not exist)
PrevTxRowQuantity ==
    IF PrevTxRow = 0 THEN 0 ELSE prevPositions[PrevTxRow].quantity

\* tx is a SPLIT or INPLIT that rescales (its factor is positive)
Rescaling == tx.type \in {"SPLIT", "INPLIT"} /\ tx.quantity > 0

RowView(r) == <<r.ticker, r.quantity, r.avg_price, r.consistency_hash>>

TableView(table) == [k \in 1..Len(table) |-> RowView(table[k])]

\* C18: when RebuildAllUseCase.execute has run twice or more in a row over an
\* unchanged transactions table, the positions table after the last run has
\* the rows it had after the run before: as many rows and, row by row, the
\* same ticker, quantity, average price and consistency hash.
C18_RebuildTwiceSameRows ==
    rebuilds_in_a_row >= 2 =>
        TableView(positions_table) = TableView(prev_positions_table)

\* two runs in a row have been made over a table with a sale in it, the
\* first of them on a positions table left by an earlier rebuild of fewer
\* transactions, and rows at two institutions are stored, one of them open
C18_Witness ==
    /\ rebuilds_in_a_row = 2
    /\ first_run_from # <<>>
    /\ TableView(first_run_from) # TableView(positions_table)
    /\ Len(positions_table) >= 2
    /\ \E k \in 1..Len(positions_table) : positions_table[k].quantity > ZERO
    /\ tax_losses_table # <<>>

\* ------------------------------------------------------------------ C21

\* the calendar months in which a sale is stored (every SELL of the runs
\* gives a sale event)
SaleMonths ==
    {MonthOf(transactions_table[k].date) :
        k \in {j \in 1..Len(transactions_table) : transactions_table[j].type = "SELL"}}

\* the sale events of a month, as many as the sales stored in it
SalesStoredIn(month) ==
    {j \in 1..Len(transactions_table) :
        /\ transactions_table[j].type = "SELL"
        /\ MonthOf(transactions_table[j].date) = month}

\* the rows of the tax_losses table for a group and a month
TaxLossRows(key, month_ref) ==
    {k \in 1..Len(tax_losses_table) :
        /\ tax_losses_table[k].asset_class = key[1]
        /\ tax_losses_table[k].trade_type = key[2]
        /\ tax_losses_table[k].month_ref = month_ref}

\* the results the calls of the last execute returned, as (call, index) pairs
TaxCallResults ==
    {<<k, n>> \in (1..Len(tax_calls)) \X (1..(2 * Cardinality(DOMAIN transactions_table) + 1)) :
        n <= Len(tax_calls[k].results)}

\* C21: the last execute over the stored transactions called the tax engine
\* once for each month with a sale in it, in strictly ascending month order,
\* on that month's sale events, with a ledger that starts empty and is
\* handed from each call to the next; the loss a result carries in is the
\* ledger entry the earlier calls left, and the tax_losses table has, for
\* each result, one row of its group and month holding the loss it carries
\* out, and no other row.
C21_OneCallPerSaleMonthThreadingLedger ==
    rebuilds_in_a_row >= 1 =>
        /\ {tax_calls[k].month : k \in 1..Len(tax_calls)} = SaleMonths
        /\ \A k \in 1..(Len(tax_calls) - 1) : tax_calls[k].month < tax_calls[k + 1].month
        /\ \A k \in 1..Len(tax_calls) :
              /\ Len(tax_calls[k].sales) = Cardinality(SalesStoredIn(tax_calls[k].month))
              /\ \A n \in 1..Len(tax_calls[k].sales) :
                    MonthOf(tax_calls[k].sales[n].date) = tax_calls[k].month
              /\ tax_calls[k].losses_before =
                    IF k = 1 THEN <<>> ELSE tax_calls[k - 1].losses_after
        /\ \A c \in TaxCallResults :
              LET r == tax_calls[c[1]].results[c[2]]
                  key == <<r.asset_class, r.trade_type>>
              IN  /\ r.month_ref = MonthLabel(tax_calls[c[1]].month)
                  /\ r.accumulated_loss_before =
                        IF c[1] = 1 THEN ZERO
                        ELSE LossOf(tax_calls[c[1] - 1].losses_after, key)
                  /\ Cardinality(TaxLossRows(key, r.month_ref)) = 1
                  /\ \A k \in TaxLossRows(key, r.month_ref) :
                        tax_losses_table[k].accumulated_loss = r.accumulated_loss_after
        /\ Len(tax_losses_table) = Cardinality(TaxCallResults)

\* a rebuild has fed two months to the tax engine, and a group of the second
\* month carried in the loss the first month left
C21_Witness ==
    /\ rebuilds_in_a_row >= 1
    /\ Len(tax_calls) = 2
    /\ \E n \in 1..Len(tax_calls[2].results) :
          LET r == tax_calls[2].results[n]
          IN  /\ r.accumulated_loss_before > ZERO
              /\ r.accumulated_loss_before =
                    LossOf(tax_calls[1].losses_after, <<r.asset_class, r.trade_type>>)
              /\ r.accumulated_loss_after # r.accumulated_loss_before

\* ------------------------------------------------------------------ C22

\* the quantity an institution holds of a ticker after the buys and sales of
\* a list in its order, a sale of more than is held leaving nothing
RECURSIVE HeldAfter(_, _, _)
HeldAfter(rows, i, held) ==
    IF i > Len(rows) THEN held
    ELSE HeldAfter(rows, i + 1,
                   IF rows[i].type = "BUY" THEN held + rows[i].quantity
                   ELSE IF rows[i].type = "SELL"
                   THEN (IF rows[i].quantity >= held THEN ZERO
                         ELSE held - rows[i].quantity)
                   ELSE held)

\* what the rows of a table hold of t's ticker at t's institution on t's
\* date, in (date, id) order
HeldAtDate(table, t) ==
    HeldAfter(get_all(SelectSeq(table, LAMBDA r : /\ r.ticker = t.ticker
                                                  /\ r.institution = t.institution
                                                  /\ r.date <= t.date)),
              1, ZERO)

\* the stored rows of a transaction's id carry the transaction's fields
StoredAs(table, t, id) ==
    \E k \in 1..Len(table) :
        /\ table[k].id = id
        /\ \A f \in DOMAIN t \ {"id"} : table[k][f] = t[f]

\* every row the replay of the ticker's stored transactions gives is stored
\* with the replay's quantity, average price and total cost
TickerRecomputed(ticker) ==
    LET P == Replay(get_by_ticker(transactions_table, ticker))
    IN  \A i \in 1..Len(P) :
            \E k \in 1..Len(positions_table) :
                /\ positions_table[k].ticker = ticker
                /\ positions_table[k].institution = P[i].institution
                /\ positions_table[k].quantity = P[i].quantity
                /\ positions_table[k].avg_price = P[i].avg_price
                /\ positions_table[k].total_cost = P[i].total_cost

\* C22: SaveTransactionUseCase.execute with a SELL raises, and leaves the
\* transactions, positions and custodians tables as they were, when the
\* stored transactions of the sale's ticker and institution dated on or
\* before its date leave a quantity <= 0 or smaller than the sale's;
\* otherwise the sale is stored and the ticker's positions are recomputed.
C22_SellJudgedAtItsDate ==
    (save_tx.type = "SELL") =>
        LET held == HeldAtDate(prev_transactions_table, save_tx)
        IN  IF held <= ZERO \/ held < save_tx.quantity
            THEN /\ save_outcome \in {"no_operations", "no_position", "exceeds_position"}
                 /\ transactions_table = prev_transactions_table
                 /\ positions_table = prev_positions_table
                 /\ custodians_table = prev_custodians_table
            ELSE /\ save_outcome = "saved"
                 /\ StoredAs(transactions_table, save_tx,
                             IF save_tx.id = 0 THEN NextId(prev_transactions_table)
                             ELSE save_tx.id)
                 /\ Len(transactions_table) =
                        Len(prev_transactions_table) + (IF save_tx.id = 0 THEN 1 ELSE 0)
                 /\ TickerRecomputed(save_tx.ticker)

\* a sale has been refused for lack of a position at its date, after an
\* earlier sale of the same holding had been accepted and stored
C22_Witness ==
    /\ save_tx.type = "SELL"
    /\ save_outcome = "no_position"
    /\ \E k \in 1..Len(transactions_table) :
          /\ transactions_table[k].type = "SELL"
          /\ transactions_table[k].ticker = save_tx.ticker
          /\ transactions_table[k].institution = save_tx.institution
    /\ \E k \in 1..Len(positions_table) :
          /\ positions_table[k].ticker = save_tx.ticker
          /\ positions_table[k].institution = save_tx.institution
          /\ positions_table[k].quantity = ZERO

\* ------------------------------------------------------------------ C23

\* replaying the table in (date, id) order reaches a SELL of more than its
\* (ticker, institution) row holds at that point
Oversells(table) ==
    LET L == get_all(table)
    IN  \E j \in 1..Len(L) :
            /\ L[j].type = "SELL"
            /\ L[j].quantity >
                   HeldAfter(SelectSeq(SubSeq(L, 1, j - 1),
                                       LAMBDA r : /\ r.ticker = L[j].ticker
                                                  /\ r.institution = L[j].institution),
                             1, ZERO)

\* C23: from an empty store, after SaveTransactionUseCase.execute calls that
\* all carried new transactions, the replay of the stored transactions in
\* (date, id) order meets no SELL exceeding what its row holds.
C23_AcceptedLogNeverOversells ==
    inserts_only => ~Oversells(transactions_table)

\* ------------------------------------------------------------------ C24

\* the stored row of the transaction given to the last call, before the call
ResavedRows ==
    {k \in 1..Len(prev_transactions_table) :
        /\ prev_transactions_table[k].id = save_tx.id
        /\ prev_transactions_table[k].type = "SELL"
        /\ prev_transactions_table[k].ticker = save_tx.ticker
        /\ prev_transactions_table[k].institution = save_tx.institution
        /\ prev_transactions_table[k].date = save_tx.date
        /\ prev_transactions_table[k].quantity = save_tx.quantity}

\* C24: a stored SELL given again to SaveTransactionUseCase.execute with its
\* ticker, institution, date and quantity unchanged is accepted when the
\* stored transactions held no infeasible sale.
C24_ResavedSellIsAccepted ==
    ( /\ save_tx.type = "SELL"
      /\ save_tx.id # 0
      /\ ResavedRows # {}
      /\ ~Oversells(prev_transactions_table) ) => save_outcome = "saved"

\* ------------------------------------------------------------------ C25

\* what is compared of a position row
Holding(r) == <<r.institution, r.quantity, r.avg_price, r.total_cost>>

\* for every ticker the stored position rows are the rows of the replay of
\* the ticker's stored transactions, none more and none less
PositionsAreReplay(transactions, stored) ==
    \A ticker \in Tickers :
        LET P == Replay(get_by_ticker(transactions, ticker))
            rows == SelectSeq(stored, LAMBDA r : r.ticker = ticker)
        IN  /\ Len(rows) = Len(P)
            /\ {Holding(rows[k]) : k \in 1..Len(rows)} = {Holding(P[i]) : i \in 1..Len(P)}

\* C25: a SaveTransactionUseCase.execute call that returns keeps the
\* positions table equal, ticker by ticker, to the replay of the stored
\* transactions, when it was equal before the call.
C25_SaveKeepsPositionsEqualToReplay ==
    ( /\ save_outcome = "saved"
      /\ PositionsAreReplay(prev_transactions_table, prev_positions_table) ) =>
        PositionsAreReplay(transactions_table, positions_table)

\* ------------------------------------------------------------------ C26

\* the replay of the whole stored log, as execute makes it
FullReplay == ProcessAll(Engine(<<>>, <<>>), get_all(transactions_table), 1, <<>>)

\* what is compared of a tax_losses row
LossView(r) == <<r.asset_class, r.trade_type, r.month_ref, r.accumulated_loss>>

\* C26: after every RebuildAllUseCase.execute, whatever the transactions
\* table holds, the positions table is the replay's snapshot, the tax_losses
\* table holds the replay's monthly results, and the custodians table has
\* one (ticker, institution, quantity) record for each position of the
\* replay with quantity > 0 and no other record.
C26_RebuildLeavesDerivedTablesOfReplay ==
    rebuilds_in_a_row >= 1 =>
        LET P     == FullReplay.engine.positions
            sales == FullReplay.sale_results
            taxed == TaxMonths({MonthOf(sales[k].date) : k \in 1..Len(sales)},
                               sales, <<>>, <<>>, <<>>).table
        IN  /\ Len(positions_table) = Len(P)
            /\ \A i \in 1..Len(P) :
                  /\ positions_table[i].ticker = P[i].ticker
                  /\ Holding(positions_table[i]) = Holding(P[i])
            /\ {LossView(tax_losses_table[k]) : k \in 1..Len(tax_losses_table)}
                  = {LossView(taxed[k]) : k \in 1..Len(taxed)}
            /\ Len(tax_losses_table) = Len(taxed)
            /\ {<<custodians_table[k].ticker, custodians_table[k].institution,
                  custodians_table[k].quantity>> : k \in 1..Len(custodians_table)}
                  = {<<P[i].ticker, P[i].institution, P[i].quantity>> :
                        i \in {j \in 1..Len(P) : P[j].quantity > ZERO}}
            /\ Len(custodians_table) = Cardinality({j \in 1..Len(P) : P[j].quantity > ZERO})


\* ------------------------------------------------------------------ C27
\* every entry of the ledger is >= 0
LedgerNonNegative(losses) == \A k \in DOMAIN losses : losses[k] >= 0

\* the loss carried out of r is the group's ledger entry after the call
\* (for an exempt group: the entry as it was before the call)
CarriedOutIsLedger(r) ==
    /\ r.accumulated_loss_after = LossOf(accumulated_losses, KeyOf(r))
    /\ ExemptGroup(r) => r.accumulated_loss_after = CarriedIn(r)

Calling == {w \in DOMAIN workers : workers[w].pc = "call"}

\* the callables were called in the order in which submit enqueued them
CalledInQueueOrder ==
    \A i, j \in 1..Len(executed) : i < j => executed[i] < executed[j]

\* C28: for any interleaving of start(), submit() and stop() calls made by
\* client threads, at most one submitted callable is executing at any
\* moment, and the callables are executed in the order in which submit()
\* enqueued them.
C28_OneCallableAtATimeInQueueOrder ==
    /\ Cardinality(Calling) <= 1
    /\ CalledInQueueOrder


\* ------------------------------------------------------------------ C29
\* the worker threads that hold a session: created and not yet closed
InSession == {w \in DOMAIN workers : workers[w].pc \in {"call", "commit", "except", "finally"}}

\* the session i and the Future of its callable agree: committed with the
\* value the callable returned, or rolled back with the exception that the
\* callable or the commit raised, and closed once no worker holds it
SessionSettled(i) ==
    LET k    == sessions[i].fn
        held == \E w \in InSession : workers[w].session = i
    IN  /\ sessions[i].state = "committed" <=> futures[k].state = "result"
        /\ sessions[i].state = "rolled_back" <=> futures[k].state = "exception"
        /\ futures[k].state = "result" => futures[k].value = ReturnOf(k)
        /\ futures[k].state = "exception" => futures[k].value \in {ErrorOf(k), CommitErrorOf(k)}
        /\ sessions[i].closed => sessions[i].state \in {"committed", "rolled_back"}
        /\ ~held => sessions[i].closed

\* every callable called has its own session, and every session is settled
OwnSessionSettled ==
    /\ Len(sessions) = Len(executed)
    /\ \A i \in 1..Len(sessions) : sessions[i].fn = executed[i] /\ SessionSettled(i)
    /\ \A v, w \in InSession : v # w => workers[v].session # workers[w].session
    /\ \A w \in InSession : /\ sessions[workers[w].session].fn = workers[w].item.fn
                              /\ ~sessions[workers[w].session].closed
                              /\ workers[w].pc \in {"call", "commit", "except"}
                                    => sessions[workers[w].session].state = "open"

\* a worker goes from closing a session back to the queue, and leaves the
\* loop only by taking the stop sentinel
WorkerKeepsRunning ==
    \A w \in DOMAIN workers :
        /\ (workers[w].pc = "finally" /\ workers'[w].pc # "finally")
              => workers'[w].pc = "get"
        /\ (workers[w].pc # "exited" /\ workers'[w].pc = "exited")
              => (workers[w].pc = "get" /\ _queue # <<>> /\ Head(_queue) = None)

Submitted(k) == Len(futures) >= k

\* the Future of the k-th submit is completed, with a result or an exception
Completed(k) == Len(futures) >= k /\ futures[k].state # "pending"

\* a start() call has created its worker thread
Started == Len(workers) > 0

\* C30: with callables that terminate and worker threads scheduled fairly,
\* every Future returned by submit() is eventually completed once the
\* manager has been started: those of callables submitted before start(),
\* those submitted before stop(), and as well those of a submit() that
\* races with or follows stop().
C30_EveryFutureEventuallyCompleted ==
    \A k \in 1..MaxOps : (Submitted(k) /\ Started) ~> Completed(k)

====
